---- MODULE Spec2Model ----
(***************************************************************************)
(* Model of the tool-metrics hook pipeline of hooks/tool-metrics.js:       *)
(* session resolution, the metrics sink with its local fallback, the       *)
(* productivity aggregator, the metric extractor, the orchestrator main    *)
(* and the command-line entry point.  Every await of the source is one     *)
(* step; the outcome of an I/O operation (success, or the rejection of its *)
(* promise) is chosen nondeterministically.                                *)
(***************************************************************************)
EXTENDS Integers, Sequences, FiniteSets, TLC

\* ------------------------------------------------------------------ bounds
\* Calls of getCurrentSessionId driven by SessionSpec.
MaxSessionCalls == 2
\* Calls of logMetrics driven by SinkSpec.
MaxSinkCalls == 2
\* Calls of updateProductivityIndicators driven by UpSpec.
MaxEvents == 3
\* Calls of main driven by Spec.
MaxCalls == 1
\* Fields of a tool-input object handed to extractToolSpecificMetrics.
MaxInputKeys == 2
\* Direct runs of the script driven by CliSpec.
MaxCliRuns == 1
\* Calls of main driven by LiveSpec.
MaxLiveCalls == 1
\* Calls of updateProductivityIndicators made by the concurrent hook
\* processes of ConcSpec, all processes together.
MaxConcurrentCalls == 2
\* Calls of loadTenants the TenantProvider makes in TenantSpec.
MaxLoads == 2

\* One process per invocation of the hook; the sequential specifications
\* only ever run "p1".
Procs == {"p1", "p2"}

\* ----------------------------------------------------------------- strings
\* A string is the sequence of its characters.
WS == {" ", "\n", "\t"}

RECURSIVE TrimStart(_)
\* String.prototype.trim, leading part.
TrimStart(s) ==
    IF s = <<>> THEN s
    ELSE IF Head(s) \in WS THEN TrimStart(Tail(s)) ELSE s

RECURSIVE TrimEnd(_)
\* String.prototype.trim, trailing part.
TrimEnd(s) ==
    IF s = <<>> THEN s
    ELSE IF s[Len(s)] \in WS THEN TrimEnd(SubSeq(s, 1, Len(s) - 1)) ELSE s

\* (await fs.readFile(sessionIdFile, 'utf8')).trim()
Trim(s) == TrimEnd(TrimStart(s))

\* A JavaScript string used as a condition: the empty string is falsy.
Truthy(s) == s # <<>>

\* The literal 'default-session'.
DefaultSession ==
    <<"d", "e", "f", "a", "u", "l", "t", "-", "s", "e", "s", "s", "i", "o", "n">>

\* --------------------------------------------------------------- variables
VARIABLES
    sessionFile,      \* <metrics-dir>/.current-session-id: [present, chars]
    metricsDir,       \* whether <home>/.ai-mesh/metrics exists
    realtimeDir,      \* whether <metrics-dir>/realtime exists
    jsonl,            \* tool-metrics.jsonl: the sequence of its lines
    activity,         \* realtime/activity.log: the sequence of its lines
    indicators,       \* productivity-indicators.json: [state, doc]
    dashboardActive,  \* whether the sentinel .dashboard-active is present
    realtimeLog,      \* realtime.log: the sequence of its lines
    calls,            \* number of calls the driver has made so far
    gs,               \* per process: the frame of getCurrentSessionId
    lm,               \* per process: the frame of logMetrics
    up,               \* per process: the frame of updateProductivityIndicators
    mn,               \* per process: the frame of main
    ex,               \* the frame of a call of extractToolSpecificMetrics
    cli,              \* the frame of the command-line entry point
    tc,               \* the state of the dashboard's TenantProvider
    tr,               \* the state of the dashboard's TestRunner
    localStorage      \* the browser's localStorage: [currentTenantId, full]

fsVars ==
    <<sessionFile, metricsDir, realtimeDir, jsonl, activity, indicators,
      dashboardActive, realtimeLog>>

vars == <<fsVars, calls, gs, lm, up, mn, ex, cli, tc, tr, localStorage>>

\* ------------------------------------------------------ getCurrentSessionId
\* process.env.CLAUDE_SESSION_ID: unset, or set to a string (maybe empty).
EnvUnset == [set |-> FALSE, chars |-> <<>>]

EnvValues ==
    {EnvUnset, [set |-> TRUE, chars |-> <<>>], [set |-> TRUE, chars |-> <<"e", "1">>]}

\* Contents the session-id file can have when it is present.
SessionFileContents ==
    {<<"f", "1">>, <<" ", "f", "1", "\n">>, <<"f", " ", "2", "\n">>, <<" ", "\n">>, <<>>}

SessionFiles ==
    {[present |-> FALSE, chars |-> <<>>]}
        \cup {[present |-> TRUE, chars |-> c] : c \in SessionFileContents}

GsIdle ==
    [pc |-> "idle", env |-> EnvUnset, sessionId |-> <<>>, found |-> FALSE,
     readRaised |-> FALSE, result |-> <<>>]

\* let sessionId = process.env.CLAUDE_SESSION_ID; if (!sessionId) { try {
\* Variant of GsEnter: the file is consulted even when the variable is set.
GsEnterFileFirst(p, env) ==
    /\ gs[p].pc = "idle"
    /\ gs' = [gs EXCEPT ![p] =
                [GsIdle EXCEPT !.env = env,
                               !.sessionId = IF env.set THEN env.chars ELSE <<>>,
                               !.pc = "exists"]]

GsEnter(p, env) ==
    /\ gs[p].pc = "idle"
    /\ gs' = [gs EXCEPT ![p] =
                [GsIdle EXCEPT !.env = env,
                               !.sessionId = IF env.set THEN env.chars ELSE <<>>,
                               !.pc = IF env.set /\ Truthy(env.chars)
                                      THEN "return" ELSE "exists"]]

\* if (await fs.pathExists(sessionIdFile)): fs-extra's pathExists resolves to
\* false on any access error, it never rejects.
GsPathExists(p) ==
    /\ gs[p].pc = "exists"
    /\ \E accessible \in BOOLEAN :
          LET found == metricsDir /\ sessionFile.present /\ accessible IN
          gs' = [gs EXCEPT ![p].found = found,
                           ![p].pc = IF found THEN "read" ELSE "return"]
    /\ UNCHANGED <<fsVars, calls, lm, up, mn, ex, cli, tc, tr, localStorage>>

\* sessionId = (await fs.readFile(sessionIdFile, 'utf8')).trim(): the promise
\* resolves with the content or rejects.
GsReadFile(p) ==
    /\ gs[p].pc = "read"
    /\ \/ gs' = [gs EXCEPT ![p].sessionId = Trim(sessionFile.chars),
                           ![p].pc = "return"]
       \/ gs' = [gs EXCEPT ![p].readRaised = TRUE, ![p].pc = "catch"]
    /\ UNCHANGED <<fsVars, calls, lm, up, mn, ex, cli, tc, tr, localStorage>>

\* Variant of GsCatch: the read error escapes the function.
GsCatchUncaught(p) ==
    /\ gs[p].pc = "catch"
    /\ gs' = [gs EXCEPT ![p].pc = "raised"]
    /\ UNCHANGED <<fsVars, calls, lm, up, mn, ex, cli, tc, tr, localStorage>>

\* } catch (error) { console.warn('Could not read session ID file:', ...) }
GsCatch(p) ==
    /\ gs[p].pc = "catch"
    /\ gs' = [gs EXCEPT ![p].pc = "return"]
    /\ UNCHANGED <<fsVars, calls, lm, up, mn, ex, cli, tc, tr, localStorage>>

\* return sessionId || 'default-session';
GsResult(sessionId) == IF Truthy(sessionId) THEN sessionId ELSE DefaultSession

GsReturn(p) ==
    /\ gs[p].pc = "return"
    /\ gs' = [gs EXCEPT ![p].result = GsResult(gs[p].sessionId), ![p].pc = "done"]
    /\ UNCHANGED <<fsVars, calls, lm, up, mn, ex, cli, tc, tr, localStorage>>

GsStep(p) == GsPathExists(p) \/ GsReadFile(p) \/ GsCatch(p) \/ GsReturn(p)

\* --------------------------------------------------------------- logMetrics
\* Field f of an event record, or d when the record has no such key.
Field(rec, f, d) == IF f \in DOMAIN rec THEN rec[f] ELSE d

NoRecord == [event_type |-> "none"]

NoResult == [success |-> FALSE, method |-> "none", message |-> ""]

LmIdle ==
    [pc |-> "idle", data |-> NoRecord, mode |-> "none", result |-> NoResult,
     remoteRaised |-> FALSE, sends |-> 0, lfRuns |-> 0, lfOk |-> FALSE,
     jsonl0 |-> 0, act0 |-> 0, lfFailedAt |-> "none"]

\* The frame of a call of logMetrics on its entry.
LmFrame(data) ==
    [LmIdle EXCEPT !.pc = "new_client", !.data = data,
                   !.jsonl0 = Len(jsonl), !.act0 = Len(activity)]

\* async function logMetrics(data) { const localFallback = ...; try {
LmEnter(p, data) ==
    /\ lm[p].pc = "idle"
    /\ lm' = [lm EXCEPT ![p] = LmFrame(data)]

\* const apiClient = new MetricsApiClient(); a throwing constructor lands in
\* the catch of logMetrics.
LmNewClient(p) ==
    /\ lm[p].pc = "new_client"
    /\ \/ lm' = [lm EXCEPT ![p].pc = "send"]
       \/ lm' = [lm EXCEPT ![p].pc = "catch", ![p].remoteRaised = TRUE]
    /\ UNCHANGED <<fsVars, calls, gs, up, mn, ex, cli, tc, tr, localStorage>>

\* sendToBackendWithFallback(apiClient, apiClient.submitToolMetrics, data,
\* localFallback) of hooks/metrics-api-client.js: the remote submission is
\* acknowledged, or it fails and the helper runs the local fallback it was
\* given, or the submission mechanism itself throws to the caller.
SendToBackendWithFallback(p) ==
    /\ lm[p].pc = "send"
    /\ \/ lm' = [lm EXCEPT ![p].pc = "done",
                           ![p].sends = lm[p].sends + 1,
                           ![p].result = [success |-> TRUE, method |-> "remote",
                                          message |-> "submitted"]]
       \/ lm' = [lm EXCEPT ![p].pc = "lf_ensure_metrics", ![p].mode = "helper",
                           ![p].sends = lm[p].sends + 1,
                           ![p].remoteRaised = TRUE,
                           ![p].lfRuns = lm[p].lfRuns + 1]
       \/ lm' = [lm EXCEPT ![p].pc = "catch", ![p].remoteRaised = TRUE,
                           ![p].sends = lm[p].sends + 1]
    /\ UNCHANGED <<fsVars, calls, gs, up, mn, ex, cli, tc, tr, localStorage>>

\* The helper's outcome when the local fallback it ran completed.
HelperFallbackOk(p) ==
    /\ lm[p].pc = "lf_done"
    /\ lm[p].mode = "helper"
    /\ lm' = [lm EXCEPT ![p].pc = "done",
                        ![p].result = [success |-> TRUE, method |-> "local_fallback",
                                       message |-> "stored locally"]]
    /\ UNCHANGED <<fsVars, calls, gs, up, mn, ex, cli, tc, tr, localStorage>>

\* The helper's outcome when the local fallback it ran raised: both paths
\* failed, reported with the local-fallback error, not thrown.
HelperFallbackRaised(p) ==
    /\ lm[p].pc = "lf_raised"
    /\ lm[p].mode = "helper"
    /\ lm' = [lm EXCEPT ![p].pc = "done",
                        ![p].result = [success |-> FALSE, method |-> "local_fallback",
                                       message |-> "both failed"]]
    /\ UNCHANGED <<fsVars, calls, gs, up, mn, ex, cli, tc, tr, localStorage>>

\* Variant of LmCatch: a failed submission is tried once more before the
\* local fallback.
LmCatchRetry(p) ==
    /\ lm[p].pc = "catch"
    /\ lm' = IF lm[p].sends < 2
             THEN [lm EXCEPT ![p].pc = "new_client"]
             ELSE [lm EXCEPT ![p].pc = "lf_ensure_metrics", ![p].mode = "catch",
                             ![p].lfRuns = lm[p].lfRuns + 1]
    /\ UNCHANGED <<fsVars, calls, gs, up, mn, ex, cli, tc, tr, localStorage>>

\* } catch (error) { console.error(...); try { await localFallback(data);
LmCatch(p) ==
    /\ lm[p].pc = "catch"
    /\ lm' = [lm EXCEPT ![p].pc = "lf_ensure_metrics", ![p].mode = "catch",
                        ![p].lfRuns = lm[p].lfRuns + 1]
    /\ UNCHANGED <<fsVars, calls, gs, up, mn, ex, cli, tc, tr, localStorage>>

\* await fs.ensureDir(metricsDir);
LfEnsureMetricsDir(p) ==
    /\ lm[p].pc = "lf_ensure_metrics"
    /\ \/ /\ metricsDir' = TRUE
          /\ lm' = [lm EXCEPT ![p].pc = "lf_append_jsonl"]
       \/ /\ lm' = [lm EXCEPT ![p].pc = "lf_raised",
                              ![p].lfFailedAt = "ensure_metrics"]
          /\ UNCHANGED metricsDir
    /\ UNCHANGED <<sessionFile, realtimeDir, jsonl, activity, indicators,
                   dashboardActive, realtimeLog, calls, gs, up, mn, ex, cli, tc, tr,
                   localStorage>>

\* Variant of LfAppendJsonl: the file is written with the record instead of
\* appended to.
LfWriteJsonl(p) ==
    /\ lm[p].pc = "lf_append_jsonl"
    /\ \/ /\ metricsDir
          /\ jsonl' = <<lm[p].data>>
          /\ lm' = [lm EXCEPT ![p].pc = "lf_ensure_realtime"]
       \/ /\ lm' = [lm EXCEPT ![p].pc = "lf_raised"]
          /\ UNCHANGED jsonl
    /\ UNCHANGED <<sessionFile, metricsDir, realtimeDir, activity, indicators,
                   dashboardActive, realtimeLog, calls, gs, up, mn, ex, cli, tc, tr,
                   localStorage>>

\* Variant of LfAppendJsonl: the record is appended twice.
LfAppendJsonlTwice(p) ==
    /\ lm[p].pc = "lf_append_jsonl"
    /\ \/ /\ metricsDir
          /\ jsonl' = jsonl \o <<lm[p].data, lm[p].data>>
          /\ lm' = [lm EXCEPT ![p].pc = "lf_ensure_realtime"]
       \/ /\ lm' = [lm EXCEPT ![p].pc = "lf_raised"]
          /\ UNCHANGED jsonl
    /\ UNCHANGED <<sessionFile, metricsDir, realtimeDir, activity, indicators,
                   dashboardActive, realtimeLog, calls, gs, up, mn, ex, cli, tc, tr,
                   localStorage>>

\* await fs.appendFile(metricsLog, JSON.stringify(metricsData) + '\n'); a line
\* of the log is the record it serialises.
LfAppendJsonl(p) ==
    /\ lm[p].pc = "lf_append_jsonl"
    /\ \/ /\ metricsDir
          /\ jsonl' = Append(jsonl, lm[p].data)
          /\ lm' = [lm EXCEPT ![p].pc = "lf_ensure_realtime"]
       \/ /\ lm' = [lm EXCEPT ![p].pc = "lf_raised",
                              ![p].lfFailedAt = "append_jsonl"]
          /\ UNCHANGED jsonl
    /\ UNCHANGED <<sessionFile, metricsDir, realtimeDir, activity, indicators,
                   dashboardActive, realtimeLog, calls, gs, up, mn, ex, cli, tc, tr,
                   localStorage>>

\* Variant of LfEnsureRealtimeDir: a failure to create the directory is
\* ignored and the fallback completes without the activity line.
LfEnsureRealtimeDirBestEffort(p) ==
    /\ lm[p].pc = "lf_ensure_realtime"
    /\ \/ /\ realtimeDir' = TRUE
          /\ metricsDir' = TRUE
          /\ lm' = [lm EXCEPT ![p].pc = "lf_append_activity"]
       \/ /\ lm' = [lm EXCEPT ![p].pc = "lf_done", ![p].lfOk = TRUE,
                              ![p].lfFailedAt = "ensure_realtime"]
          /\ UNCHANGED <<realtimeDir, metricsDir>>
    /\ UNCHANGED <<sessionFile, jsonl, activity, indicators,
                   dashboardActive, realtimeLog, calls, gs, up, mn, ex, cli, tc, tr,
                   localStorage>>

\* await fs.ensureDir(realtimeDir); ensureDir creates the missing parents too.
LfEnsureRealtimeDir(p) ==
    /\ lm[p].pc = "lf_ensure_realtime"
    /\ \/ /\ realtimeDir' = TRUE
          /\ metricsDir' = TRUE
          /\ lm' = [lm EXCEPT ![p].pc = "lf_append_activity"]
       \/ /\ lm' = [lm EXCEPT ![p].pc = "lf_raised",
                              ![p].lfFailedAt = "ensure_realtime"]
          /\ UNCHANGED <<realtimeDir, metricsDir>>
    /\ UNCHANGED <<sessionFile, jsonl, activity, indicators,
                   dashboardActive, realtimeLog, calls, gs, up, mn, ex, cli, tc, tr,
                   localStorage>>

\* Variant of ActivityLine: the status column is taken from the record's
\* success flag and the name column falls back to the agent's name.
ActivityLineFromRecord(data) ==
    LET toolName == Field(data, "tool_name", Field(data, "agent_name", ""))
    IN  [timestamp |-> Field(data, "timestamp", 0),
         kind |-> "tool_complete",
         tool_name |-> toolName,
         status |-> IF Field(data, "success", FALSE) THEN "success" ELSE "error"]

\* `${timestamp}|tool_complete|${toolName}|${status}\n` with
\* toolName = metricsData.tool_name || 'unknown' and
\* status = metricsData.status || 'unknown'.
ActivityLine(data) ==
    LET toolName == Field(data, "tool_name", "")
        status == Field(data, "status", "")
    IN  [timestamp |-> Field(data, "timestamp", 0),
         kind |-> "tool_complete",
         tool_name |-> IF toolName # "" THEN toolName ELSE "unknown",
         status |-> IF status # "" THEN status ELSE "unknown"]

\* await fs.appendFile(activityFile, ...); the last statement of localFallback.
LfAppendActivity(p) ==
    /\ lm[p].pc = "lf_append_activity"
    /\ \/ /\ realtimeDir
          /\ activity' = Append(activity, ActivityLine(lm[p].data))
          /\ lm' = [lm EXCEPT ![p].pc = "lf_done", ![p].lfOk = TRUE]
       \/ /\ lm' = [lm EXCEPT ![p].pc = "lf_raised",
                              ![p].lfFailedAt = "append_activity"]
          /\ UNCHANGED activity
    /\ UNCHANGED <<sessionFile, metricsDir, realtimeDir, jsonl, indicators,
                   dashboardActive, realtimeLog, calls, gs, up, mn, ex, cli, tc, tr,
                   localStorage>>

\* Variant of LmFallbackOk: a completed fallback is reported as a failure.
LmFallbackOkAsFailure(p) ==
    /\ lm[p].pc = "lf_done"
    /\ lm[p].mode = "catch"
    /\ lm' = [lm EXCEPT ![p].pc = "done",
                        ![p].result = [success |-> FALSE, method |-> "local_fallback",
                                       message |-> "Both API and local storage failed"]]
    /\ UNCHANGED <<fsVars, calls, gs, up, mn, ex, cli, tc, tr, localStorage>>

\* return { success: true, method: 'local_fallback', message: 'API client
\* failed, data stored locally', error: error.message };
LmFallbackOk(p) ==
    /\ lm[p].pc = "lf_done"
    /\ lm[p].mode = "catch"
    /\ lm' = [lm EXCEPT ![p].pc = "done",
                        ![p].result = [success |-> TRUE, method |-> "local_fallback",
                                       message |-> "API client failed, data stored locally"]]
    /\ UNCHANGED <<fsVars, calls, gs, up, mn, ex, cli, tc, tr, localStorage>>

\* Variant of LmFallbackRaised: the fallback error is rethrown.
LmFallbackRaisedRethrown(p) ==
    /\ lm[p].pc = "lf_raised"
    /\ lm[p].mode = "catch"
    /\ lm' = [lm EXCEPT ![p].pc = "raised"]
    /\ UNCHANGED <<fsVars, calls, gs, up, mn, ex, cli, tc, tr, localStorage>>

\* } catch (fallbackError) { return { success: false, method:
\* 'local_fallback', message: 'Both API and local storage failed', ... }; }
LmFallbackRaised(p) ==
    /\ lm[p].pc = "lf_raised"
    /\ lm[p].mode = "catch"
    /\ lm' = [lm EXCEPT ![p].pc = "done",
                        ![p].result = [success |-> FALSE, method |-> "local_fallback",
                                       message |-> "Both API and local storage failed"]]
    /\ UNCHANGED <<fsVars, calls, gs, up, mn, ex, cli, tc, tr, localStorage>>

LmStep(p) ==
    \/ LmNewClient(p)
    \/ SendToBackendWithFallback(p)
    \/ HelperFallbackOk(p)
    \/ HelperFallbackRaised(p)
    \/ LmCatch(p)
    \/ LfEnsureMetricsDir(p)
    \/ LfAppendJsonl(p)
    \/ LfEnsureRealtimeDir(p)
    \/ LfAppendActivity(p)
    \/ LmFallbackOk(p)
    \/ LmFallbackRaised(p)

\* --------------------------------------------------------- JavaScript values
\* A value of a tool-input field: a string, a number or a boolean.
Str(s) == [t |-> "str", s |-> s, n |-> 0]

Num(n) == [t |-> "num", s |-> <<>>, n |-> n]

Bool(b) == [t |-> "bool", s |-> <<>>, n |-> IF b THEN 1 ELSE 0]

\* null / undefined.
Null == [t |-> "null", s |-> <<>>, n |-> 0]

\* The value as a condition: '', 0, false, null and undefined are falsy.
JsTruthy(v) ==
    CASE v.t = "str" -> v.s # <<>>
      [] v.t = "num" -> v.n # 0
      [] v.t = "bool" -> v.n = 1
      [] OTHER -> FALSE

\* obj.key || d
OrElse(obj, key, d) ==
    IF key \in DOMAIN obj /\ JsTruthy(obj[key]) THEN obj[key] ELSE d

RECURSIVE CountOf(_, _)
\* Number of occurrences of character c in s.
CountOf(c, s) ==
    IF s = <<>> THEN 0
    ELSE (IF Head(s) = c THEN 1 ELSE 0) + CountOf(c, Tail(s))

\* s.split(c).length for a string s: one segment more than separators.
SplitLength(s, c) == CountOf(c, s) + 1

RECURSIVE UpTo(_, _)
\* s.split(c)[0]: the characters before the first c.
UpTo(s, c) ==
    IF s = <<>> \/ Head(s) = c THEN <<>> ELSE <<Head(s)>> \o UpTo(Tail(s), c)

RECURSIVE LastIndexOf(_, _)
\* s.lastIndexOf(c), 1-based; 0 when c is not in s.
LastIndexOf(s, c) ==
    IF s = <<>> THEN 0
    ELSE IF s[Len(s)] = c THEN Len(s) ELSE LastIndexOf(SubSeq(s, 1, Len(s) - 1), c)

\* path.extname(p): from the last '.' of the last path segment, '' when there
\* is none or when the segment starts with its only '.'.
ExtName(path) ==
    LET slash == LastIndexOf(path, "/")
        base == SubSeq(path, slash + 1, Len(path))
        dot == LastIndexOf(base, ".")
    IN  IF dot <= 1 THEN <<>> ELSE SubSeq(base, dot, Len(base))

\* ------------------------------------------------ extractToolSpecificMetrics
\* text ? text.split('\n').length : 0, for a value already defaulted to '':
\* a truthy value that is no string has no split method (TypeError).
Throws == [ok |-> FALSE, metrics |-> <<>>]

Returns(m) == [ok |-> TRUE, metrics |-> m]

\* Variant of LineCount: the empty string counts as one line.
LineCountOfSplit(v) == SplitLength(v.s, "\n")

LineCount(v) == IF JsTruthy(v) THEN SplitLength(v.s, "\n") ELSE 0

\* case 'Read': a failing existsSync/statSync is caught and gives size 0.
ExtractRead(toolInput, fileSize) ==
    Returns([file_path |-> OrElse(toolInput, "file_path", Str(<<>>)),
             file_size_bytes |-> fileSize,
             lines_requested |-> OrElse(toolInput, "limit", Str(<<"a", "l", "l">>))])

\* case 'Edit'
ExtractEdit(toolInput) ==
    LET editFilePath == OrElse(toolInput, "file_path", Str(<<>>))
        oldString == OrElse(toolInput, "old_string", Str(<<>>))
        newString == OrElse(toolInput, "new_string", Str(<<>>))
        linesRemoved == LineCount(oldString)
        linesAdded == LineCount(newString)
    IN  IF oldString.t # "str" \/ newString.t # "str" THEN Throws
        ELSE Returns([file_path |-> editFilePath,
                      lines_added |-> linesAdded,
                      lines_removed |-> linesRemoved,
                      net_lines |-> linesAdded - linesRemoved,
                      replace_all |-> OrElse(toolInput, "replace_all", Bool(FALSE))])

\* case 'Write': content.split and path.extname throw on a truthy non-string.
ExtractWrite(toolInput) ==
    LET writeFilePath == OrElse(toolInput, "file_path", Str(<<>>))
        content == OrElse(toolInput, "content", Str(<<>>))
    IN  IF content.t # "str" \/ writeFilePath.t # "str" THEN Throws
        ELSE Returns([file_path |-> writeFilePath,
                      content_length |-> Len(content.s),
                      lines_written |-> LineCount(content),
                      file_type |-> IF JsTruthy(writeFilePath)
                                    THEN Str(ExtName(writeFilePath.s))
                                    ELSE Str(<<"u", "n", "k", "n", "o", "w", "n">>)])

\* case 'Bash'
ExtractBash(toolInput) ==
    LET command == OrElse(toolInput, "command", Str(<<>>)) IN
    IF command.t # "str" THEN Throws
    ELSE Returns([command |-> command,
                  command_type |-> IF JsTruthy(command)
                                   THEN Str(UpTo(command.s, " "))
                                   ELSE Str(<<"u", "n", "k", "n", "o", "w", "n">>),
                  background |-> OrElse(toolInput, "run_in_background", Bool(FALSE)),
                  timeout |-> OrElse(toolInput, "timeout", Null)])

\* case 'Task'
ExtractTask(toolInput) ==
    Returns([subagent_type |-> OrElse(toolInput, "subagent_type",
                                      Str(<<"u", "n", "k", "n", "o", "w", "n">>)),
             task_description |-> OrElse(toolInput, "description", Str(<<>>)),
             delegation |-> TRUE])

\* default:
ExtractGeneric(toolInput) ==
    Returns([generic_tool |-> TRUE, input_keys |-> DOMAIN toolInput])

\* switch (toolName) { ... } return metrics; fileSize is what the Read branch
\* measured.
extractToolSpecificMetrics(context, fileSize) ==
    LET toolName == context.tool_name
        toolInput == context.tool_input
    IN  CASE toolName = "Read" -> ExtractRead(toolInput, fileSize)
          [] toolName = "Edit" -> ExtractEdit(toolInput)
          [] toolName = "Write" -> ExtractWrite(toolInput)
          [] toolName = "Bash" -> ExtractBash(toolInput)
          [] toolName = "Task" -> ExtractTask(toolInput)
          [] OTHER -> ExtractGeneric(toolInput)

\* The frame of one call of extractToolSpecificMetrics: its argument, the
\* size statSync reports, and the mapping returned (pc "returned") or the
\* TypeError thrown (pc "raised").
ExIdle ==
    [pc |-> "idle", tool_name |-> "unknown", tool_input |-> <<>>, fileSize |-> 0,
     result |-> Throws]

\* extractToolSpecificMetrics(context) is entered with its argument.
ExEnter(toolName, toolInput, fileSize) ==
    /\ ex.pc = "idle"
    /\ ex' = [ExIdle EXCEPT !.pc = "called", !.tool_name = toolName,
                            !.tool_input = toolInput, !.fileSize = fileSize]

\* The synchronous body: return metrics; or the exception of a branch.
ExBody ==
    /\ ex.pc = "called"
    /\ LET r == extractToolSpecificMetrics(ex, ex.fileSize) IN
       ex' = [ex EXCEPT !.result = r, !.pc = IF r.ok THEN "returned" ELSE "raised"]
    /\ UNCHANGED <<fsVars, calls, gs, lm, up, mn, cli, tc, tr, localStorage>>

\* ------------------------------------------------------------- rationals
\* success_rate is a fraction [num, den] in lowest terms, den > 0; the
\* source computes it in double precision.
RECURSIVE Gcd(_, _)
Gcd(a, b) == IF b = 0 THEN a ELSE Gcd(b, a % b)

Abs(x) == IF x < 0 THEN -x ELSE x

Rat(n, d) ==
    LET g == Gcd(Abs(n), d) IN
    IF n = 0 THEN [num |-> 0, den |-> 1] ELSE [num |-> n \div g, den |-> d \div g]

RatSub(a, b) == Rat(a.num * b.den - b.num * a.den, a.den * b.den)

RatLeq(a, b) == a.num * b.den <= b.num * a.den

\* Math.max(0, x)
RatMax0(x) == IF x.num < 0 THEN Rat(0, 1) ELSE x

\* ------------------------------------------- updateProductivityIndicators
\* indicators = { session_start: ..., commands_executed: 0, tools_used: {},
\* files_modified: 0, lines_changed: 0, agents_invoked: {},
\* success_rate: 100.0, last_activity: null }
FreshIndicators(now) ==
    [session_start |-> now,
     commands_executed |-> 0,
     tools_used |-> <<>>,
     files_modified |-> 0,
     lines_changed |-> 0,
     agents_invoked |-> <<>>,
     success_rate |-> Rat(100, 1),
     last_activity |-> 0]

\* obj[key] = (obj[key] || 0) + 1
Incremented(obj, key) ==
    [k \in DOMAIN obj \cup {key} |->
        IF k = key THEN (IF key \in DOMAIN obj THEN obj[key] ELSE 0) + 1 ELSE obj[k]]

\* Variant of SuccessRate: a success restores the rate to 100.
SuccessRateRecomputed(rate, success, totalCommands) ==
    IF success THEN Rat(100, 1) ELSE RatMax0(RatSub(rate, Rat(1, totalCommands)))

\* Variant of SuccessRate: the penalty uses the count before the increment.
SuccessRatePreIncrement(rate, success, totalCommands) ==
    IF totalCommands > 1 /\ ~success
    THEN RatMax0(RatSub(rate, Rat(1, totalCommands - 1)))
    ELSE rate

\* if (totalCommands > 0) { if (!metrics.success) { indicators.success_rate =
\* Math.max(0, indicators.success_rate - (1.0 / totalCommands)); } }
SuccessRate(rate, success, totalCommands) ==
    IF totalCommands > 0 /\ ~success
    THEN RatMax0(RatSub(rate, Rat(1, totalCommands)))
    ELSE rate

\* Variant of CommandsExecuted: the command is not counted.
CommandsNotCounted(n) == n

\* indicators.commands_executed += 1;
CommandsExecuted(n) == n + 1

\* Variant of FilesModified: any event with a file path counts.
FilesModifiedAnyTool(n, metrics) ==
    IF "file_path" \in DOMAIN metrics THEN n + 1 ELSE n

\* if (['Edit', 'Write'].includes(toolName) && 'file_path' in metrics) {
\* indicators.files_modified += 1; }
FilesModified(n, metrics) ==
    IF metrics.tool_name \in {"Edit", "Write"} /\ "file_path" \in DOMAIN metrics
    THEN n + 1 ELSE n

\* Variant of LinesChanged: the two checks are independent, so an event with
\* both fields adds both.
LinesChangedBoth(n, metrics) ==
    n + (IF "net_lines" \in DOMAIN metrics THEN Abs(metrics.net_lines) ELSE 0)
      + (IF "lines_written" \in DOMAIN metrics THEN metrics.lines_written ELSE 0)

\* if ('net_lines' in metrics) { indicators.lines_changed +=
\* Math.abs(metrics.net_lines); } else if ('lines_written' in metrics) {
\* indicators.lines_changed += metrics.lines_written; }
LinesChanged(n, metrics) ==
    IF "net_lines" \in DOMAIN metrics
    THEN n + Abs(metrics.net_lines)
    ELSE IF "lines_written" \in DOMAIN metrics
         THEN n + metrics.lines_written
         ELSE n

\* Variant of AgentsInvoked: the agent's entry is set to 1 instead of counted
\* up.
AgentsInvokedSetToOne(agents, metrics) ==
    IF "subagent_type" \in DOMAIN metrics /\ JsTruthy(metrics.subagent_type)
    THEN [k \in DOMAIN agents \cup {metrics.subagent_type} |->
            IF k = metrics.subagent_type THEN 1 ELSE agents[k]]
    ELSE agents

\* if (metrics.subagent_type) { const agent = metrics.subagent_type; ...
\* indicators.agents_invoked[agent] = (indicators.agents_invoked[agent] || 0)
\* + 1; }
AgentsInvoked(agents, metrics) ==
    IF "subagent_type" \in DOMAIN metrics /\ JsTruthy(metrics.subagent_type)
    THEN Incremented(agents, metrics.subagent_type)
    ELSE agents

\* The synchronous update between the load and the save (lines 156-188).
UpdatedIndicators(ind, metrics) ==
    LET toolName == metrics.tool_name
        total == CommandsExecuted(ind.commands_executed)
    IN  [session_start |-> ind.session_start,
         commands_executed |-> total,
         last_activity |-> metrics.timestamp,
         tools_used |-> Incremented(ind.tools_used, toolName),
         files_modified |-> FilesModified(ind.files_modified, metrics),
         lines_changed |-> LinesChanged(ind.lines_changed, metrics),
         agents_invoked |-> AgentsInvoked(ind.agents_invoked, metrics),
         success_rate |-> SuccessRate(ind.success_rate, metrics.success, total)]

NoDoc == FreshIndicators(0)

AbsentFile == [state |-> "absent", doc |-> NoDoc]

\* A file that exists and does not parse as JSON.
CorruptFile == [state |-> "corrupt", doc |-> NoDoc]

DocFile(doc) == [state |-> "ok", doc |-> doc]

UpIdle ==
    [pc |-> "idle", metrics |-> NoRecord, indicators |-> NoDoc, denied |-> FALSE,
     loaded |-> FALSE, before |-> AbsentFile, saved |-> FALSE, signalled |-> FALSE,
     raised |-> FALSE, fault |-> FALSE, rt0 |-> 0, readFailed |-> FALSE]

\* async function updateProductivityIndicators(metrics) { try {
UpEnter(p, metrics) ==
    /\ up[p].pc = "idle"
    /\ up' = [up EXCEPT ![p] = [UpIdle EXCEPT !.pc = "exists", !.metrics = metrics,
                                              !.before = indicators,
                                              !.rt0 = Len(realtimeLog)]]

\* if (await fs.pathExists(indicatorsFile)) ... else { indicators = {...} }:
\* pathExists resolves to false on an access error, which then also fails the
\* later write of the same file; without the file the update runs on a fresh
\* document up to the call of writeJSON. The field fault records that an
\* operation failed which the state of the store allowed to succeed.
UpPathExists(p) ==
    /\ up[p].pc = "exists"
    /\ \E accessible \in BOOLEAN :
          LET there == metricsDir /\ indicators.state # "absent" IN
          /\ ~accessible => there
          /\ up' = [up EXCEPT
                ![p].denied = ~accessible,
                ![p].fault = ~accessible,
                ![p].indicators =
                    IF there /\ accessible THEN up[p].indicators
                    ELSE UpdatedIndicators(FreshIndicators(calls), up[p].metrics),
                ![p].pc = IF there /\ accessible THEN "read" ELSE "write"]
    /\ UNCHANGED <<fsVars, calls, gs, lm, mn, ex, cli, tc, tr, localStorage>>

\* Variant of UpReadJSON: a document that cannot be read is replaced by a
\* fresh one and the update goes on.
UpReadJSONOrFresh(p) ==
    /\ up[p].pc = "read"
    /\ \/ /\ indicators.state = "ok"
          /\ up' = [up EXCEPT
                ![p].loaded = TRUE,
                ![p].indicators = UpdatedIndicators(indicators.doc, up[p].metrics),
                ![p].pc = "write"]
       \/ up' = [up EXCEPT
                ![p].readFailed = TRUE,
                ![p].indicators =
                    UpdatedIndicators(FreshIndicators(calls), up[p].metrics),
                ![p].pc = "write"]
    /\ UNCHANGED <<fsVars, calls, gs, lm, mn, ex, cli, tc, tr, localStorage>>

\* indicators = await fs.readJSON(indicatorsFile); followed by the update up
\* to the call of writeJSON. The read rejects on an I/O error and on a file
\* that is no JSON.
UpReadJSON(p) ==
    /\ up[p].pc = "read"
    /\ \/ /\ indicators.state = "ok"
          /\ up' = [up EXCEPT
                ![p].loaded = TRUE,
                ![p].indicators = UpdatedIndicators(indicators.doc, up[p].metrics),
                ![p].pc = "write"]
       \/ up' = [up EXCEPT ![p].pc = "catch",
                           ![p].readFailed = TRUE,
                           ![p].fault = up[p].fault \/ indicators.state = "ok"]
    /\ UNCHANGED <<fsVars, calls, gs, lm, mn, ex, cli, tc, tr, localStorage>>

\* Variant of UpWriteJSON: the save counts on top of the document as it is in
\* the file at the time of the write.
UpWriteJSONOnCurrent(p) ==
    /\ up[p].pc = "write"
    /\ \/ /\ metricsDir /\ ~up[p].denied
          /\ indicators' =
                DocFile([up[p].indicators EXCEPT
                    !.commands_executed =
                        (IF indicators.state = "ok"
                         THEN indicators.doc.commands_executed ELSE 0) + 1])
          /\ up' = [up EXCEPT ![p].saved = TRUE, ![p].pc = "signal"]
       \/ /\ up' = [up EXCEPT ![p].pc = "catch"]
          /\ UNCHANGED indicators
    /\ UNCHANGED <<sessionFile, metricsDir, realtimeDir, jsonl, activity,
                   dashboardActive, realtimeLog, calls, gs, lm, mn, ex, cli, tc, tr,
                   localStorage>>

\* await fs.writeJSON(indicatorsFile, indicators, { spaces: 2 }); writeJSON
\* does not create a missing directory (outputJSON would), so without the
\* metrics directory it rejects. A write that fails leaves the file as it
\* was, or truncated when it failed after the file was opened.
UpWriteJSON(p) ==
    /\ up[p].pc = "write"
    /\ \/ /\ metricsDir /\ ~up[p].denied
          /\ indicators' = DocFile(up[p].indicators)
          /\ up' = [up EXCEPT ![p].saved = TRUE, ![p].pc = "signal"]
       \/ /\ up' = [up EXCEPT ![p].pc = "catch",
                               ![p].fault = up[p].fault \/ metricsDir]
          /\ \/ UNCHANGED indicators
             \/ /\ metricsDir /\ ~up[p].denied
                /\ indicators' = CorruptFile
    /\ UNCHANGED <<sessionFile, metricsDir, realtimeDir, jsonl, activity,
                   dashboardActive, realtimeLog, calls, gs, lm, mn, ex, cli, tc, tr,
                   localStorage>>

\* Variant of UpSignalExists: the progress line is appended without looking
\* for the sentinel.
UpSignalIgnored(p) ==
    /\ up[p].pc = "signal"
    /\ up' = [up EXCEPT ![p].pc = "append"]
    /\ UNCHANGED <<fsVars, calls, gs, lm, mn, ex, cli, tc, tr, localStorage>>

\* if (await fs.pathExists(dashboardSignal)) {
UpSignalExists(p) ==
    /\ up[p].pc = "signal"
    /\ \E accessible \in BOOLEAN :
          up' = [up EXCEPT ![p].pc = IF dashboardActive /\ accessible
                                     THEN "append" ELSE "done",
                           ![p].fault = up[p].fault \/ (dashboardActive /\ ~accessible)]
    /\ UNCHANGED <<fsVars, calls, gs, lm, mn, ex, cli, tc, tr, localStorage>>

\* `... ${toolName} completed - Productivity: ${indicators.commands_executed}
\* commands, ${indicators.files_modified} files\n`
RealtimeLine(toolName, ind) ==
    [tool_name |-> toolName, commands |-> ind.commands_executed,
     files |-> ind.files_modified]

\* await fs.appendFile(realtimeLog, logMessage);
UpAppendRealtime(p) ==
    /\ up[p].pc = "append"
    /\ \/ /\ realtimeLog' =
                Append(realtimeLog,
                       RealtimeLine(up[p].metrics.tool_name, up[p].indicators))
          /\ up' = [up EXCEPT ![p].signalled = TRUE, ![p].pc = "done"]
       \/ /\ up' = [up EXCEPT ![p].pc = "catch", ![p].fault = TRUE]
          /\ UNCHANGED realtimeLog
    /\ UNCHANGED <<sessionFile, metricsDir, realtimeDir, jsonl, activity, indicators,
                   dashboardActive, calls, gs, lm, mn, ex, cli, tc, tr,
                   localStorage>>

\* Variant of UpCatch: the error escapes the function.
UpCatchUncaught(p) ==
    /\ up[p].pc = "catch"
    /\ up' = [up EXCEPT ![p].raised = TRUE, ![p].pc = "raised"]
    /\ UNCHANGED <<fsVars, calls, gs, lm, mn, ex, cli, tc, tr, localStorage>>

\* } catch (error) { console.error('Warning: Failed to update productivity
\* indicators:', error); }
UpCatch(p) ==
    /\ up[p].pc = "catch"
    /\ up' = [up EXCEPT ![p].raised = TRUE, ![p].pc = "done"]
    /\ UNCHANGED <<fsVars, calls, gs, lm, mn, ex, cli, tc, tr, localStorage>>

UpStep(p) ==
    \/ UpPathExists(p)
    \/ UpReadJSON(p)
    \/ UpWriteJSON(p)
    \/ UpSignalExists(p)
    \/ UpAppendRealtime(p)
    \/ UpCatch(p)

\* --------------------------------------------------------------------- main
\* toolData.error: absent, or an Error object with its message.
NoError == [has |-> FALSE, message |-> ""]

ErrorOf(msg) == [has |-> TRUE, message |-> msg]

\* The argument of main: null, or an object whose toolName ('' when absent),
\* toolInput, error and executionTime (in tenths of a millisecond) are read.
NullToolData ==
    [isNull |-> TRUE, toolName |-> "", toolInput |-> <<>>, error |-> NoError,
     executionTime |-> 0]

ToolData(toolName, toolInput, error, executionTime) ==
    [isNull |-> FALSE, toolName |-> toolName, toolInput |-> toolInput,
     error |-> error, executionTime |-> executionTime]

\* createPostToolUseContext(toolData), for toolData that is not null.
createPostToolUseContext(toolData, now) ==
    [tool_name |-> IF toolData.toolName # "" THEN toolData.toolName ELSE "unknown",
     tool_input |-> toolData.toolInput,
     error |-> toolData.error,
     timestamp |-> now]

\* Math.round(x) for x >= 0 given in tenths.
RoundTenths(x) == (x + 5) \div 10

\* const metricsData = { event_type: 'tool_execution', ... };
\* Object.assign(metricsData, toolSpecificMetrics); and, when context.error is
\* set, metricsData.error = true; metricsData.error_message = String(error).
MetricsData(context, timestamp, sessionId, executionTime, toolSpecificMetrics) ==
    LET base == [event_type |-> "tool_execution",
                 timestamp |-> timestamp,
                 tool_name |-> context.tool_name,
                 success |-> ~context.error.has,
                 execution_time_ms |-> RoundTenths(executionTime),
                 user |-> "unknown",
                 session_id |-> sessionId]
        merged == toolSpecificMetrics @@ base
    IN  IF context.error.has
        THEN [error |-> TRUE,
              error_message |-> [name |-> "Error", message |-> context.error.message]]
             @@ merged
        ELSE merged

\* const agentMetrics = { event_type: 'agent_invocation', ... };
AgentMetrics(context, timestamp, executionTime, toolSpecificMetrics) ==
    [event_type |-> "agent_invocation",
     timestamp |-> timestamp,
     agent_name |-> Field(toolSpecificMetrics, "subagent_type", Null),
     task_description |-> Field(toolSpecificMetrics, "task_description", Null),
     success |-> ~context.error.has,
     execution_time_ms |-> RoundTenths(executionTime)]

\* Variant of IsTaskTool: Edit is treated as a delegation too.
IsTaskToolOrEdit(context) == context.tool_name \in {"Task", "Edit"}

\* if (context.tool_name === 'Task') {
IsTaskTool(context) == context.tool_name = "Task"

NoReport == [success |-> FALSE]

MnIdle ==
    [pc |-> "idle", toolData |-> NullToolData, timestamp |-> 0,
     metricsData |-> NoRecord, agentResult |-> NoResult, logResult |-> NoResult,
     sunk |-> <<>>, threw |-> FALSE, updated |-> FALSE, updateRaised |-> FALSE,
     report |-> NoReport]

\* async function main(toolData = {}) { const startTime = ...; try {
\* const context = createPostToolUseContext(toolData); const timestamp = ...;
\* const sessionId = await getCurrentSessionId();
\* Reading toolData.toolName of null throws inside the try block.
MainEnter(p, toolData, env) ==
    /\ mn[p].pc = "idle"
    /\ IF toolData.isNull
       THEN /\ mn' = [mn EXCEPT ![p] = [MnIdle EXCEPT !.pc = "catch",
                                                      !.toolData = toolData,
                                                      !.threw = TRUE]]
            /\ UNCHANGED gs
       ELSE /\ mn' = [mn EXCEPT ![p] = [MnIdle EXCEPT !.pc = "session",
                                                      !.toolData = toolData,
                                                      !.timestamp = calls + 1]]
            /\ GsEnter(p, env)

\* Sizes statSync can report for the path of a Read: 0 when the file does not
\* exist or the call throws.
FileSizes == {0, 12}

\* const metricsData = {...}; const toolSpecificMetrics =
\* extractToolSpecificMetrics(context); Object.assign(...);
\* if (context.tool_name === 'Task') { ...; await logMetrics(agentMetrics); }
\* otherwise on to: if (context.error) {...}; await logMetrics(metricsData);
MainAfterSession(p) ==
    /\ mn[p].pc = "session"
    /\ gs[p].pc = "done"
    /\ gs' = [gs EXCEPT ![p] = GsIdle]
    /\ \E fileSize \in FileSizes :
        LET context == createPostToolUseContext(mn[p].toolData, mn[p].timestamp)
            extracted == extractToolSpecificMetrics(context, fileSize)
            metricsData == MetricsData(context, mn[p].timestamp, gs[p].result,
                                       mn[p].toolData.executionTime,
                                       extracted.metrics)
        IN  /\ (context.tool_name # "Read") => fileSize = 0
            /\ IF ~extracted.ok
               THEN /\ mn' = [mn EXCEPT ![p].pc = "catch", ![p].threw = TRUE]
                    /\ UNCHANGED lm
               ELSE IF IsTaskTool(context)
               THEN /\ mn' = [mn EXCEPT ![p].pc = "agent_log",
                                        ![p].metricsData = metricsData,
                                        ![p].sunk = <<"agent_invocation">>]
                    /\ lm[p].pc = "idle"
                    /\ lm' = [lm EXCEPT ![p] =
                                LmFrame(AgentMetrics(context, mn[p].timestamp,
                                                     mn[p].toolData.executionTime,
                                                     extracted.metrics))]
               ELSE /\ mn' = [mn EXCEPT ![p].pc = "primary_log",
                                        ![p].metricsData = metricsData,
                                        ![p].sunk = <<"tool_execution">>]
                    /\ lm[p].pc = "idle"
                    /\ lm' = [lm EXCEPT ![p] = LmFrame(metricsData)]
    /\ UNCHANGED <<fsVars, calls, up, ex, cli, tc, tr, localStorage>>

\* Variant of MainAfterAgentLog: the agent record's submission is not awaited.
MainAfterAgentLogNoAwait(p) ==
    /\ mn[p].pc = "agent_log"
    /\ mn' = [mn EXCEPT ![p].pc = "primary_log",
                        ![p].agentResult = lm[p].result,
                        ![p].sunk = Append(mn[p].sunk, "tool_execution")]
    /\ lm' = [lm EXCEPT ![p] = LmFrame(mn[p].metricsData)]
    /\ UNCHANGED <<fsVars, calls, gs, up, ex, cli, tc, tr, localStorage>>

\* Variant of MainAfterAgentLog: a failed submission of the agent record ends
\* the sequence in main's catch block.
MainAfterAgentLogStrict(p) ==
    /\ mn[p].pc = "agent_log"
    /\ lm[p].pc = "done"
    /\ IF lm[p].result.success
       THEN /\ mn' = [mn EXCEPT ![p].pc = "primary_log",
                                ![p].agentResult = lm[p].result,
                                ![p].sunk = Append(mn[p].sunk, "tool_execution")]
            /\ lm' = [lm EXCEPT ![p] = LmFrame(mn[p].metricsData)]
       ELSE /\ mn' = [mn EXCEPT ![p].pc = "catch",
                                ![p].agentResult = lm[p].result,
                                ![p].threw = TRUE]
            /\ lm' = [lm EXCEPT ![p] = LmIdle]
    /\ UNCHANGED <<fsVars, calls, gs, up, ex, cli, tc, tr, localStorage>>

\* The agent record's outcome is dropped;
\* const logResult = await logMetrics(metricsData);
MainAfterAgentLog(p) ==
    /\ mn[p].pc = "agent_log"
    /\ lm[p].pc = "done"
    /\ mn' = [mn EXCEPT ![p].pc = "primary_log",
                        ![p].agentResult = lm[p].result,
                        ![p].sunk = Append(mn[p].sunk, "tool_execution")]
    /\ lm' = [lm EXCEPT ![p] = LmFrame(mn[p].metricsData)]
    /\ UNCHANGED <<fsVars, calls, gs, up, ex, cli, tc, tr, localStorage>>

\* Variant of MainAfterPrimaryLog: a failed submission of the primary record
\* is treated as an error of the hook and the indicators are not updated.
MainAfterPrimaryLogStrict(p) ==
    /\ mn[p].pc = "primary_log"
    /\ lm[p].pc = "done"
    /\ lm' = [lm EXCEPT ![p] = LmIdle]
    /\ IF lm[p].result.success
       THEN /\ mn' = [mn EXCEPT ![p].pc = "update", ![p].logResult = lm[p].result]
            /\ UpEnter(p, mn[p].metricsData)
       ELSE /\ mn' = [mn EXCEPT ![p].pc = "catch", ![p].logResult = lm[p].result,
                                ![p].threw = TRUE]
            /\ UNCHANGED up
    /\ UNCHANGED <<fsVars, calls, gs, ex, cli, tc, tr, localStorage>>

\* await updateProductivityIndicators(metricsData);
MainAfterPrimaryLog(p) ==
    /\ mn[p].pc = "primary_log"
    /\ lm[p].pc = "done"
    /\ mn' = [mn EXCEPT ![p].pc = "update", ![p].logResult = lm[p].result]
    /\ lm' = [lm EXCEPT ![p] = LmIdle]
    /\ UpEnter(p, mn[p].metricsData)
    /\ UNCHANGED <<fsVars, calls, gs, ex, cli, tc, tr, localStorage>>

\* return { success: true, executionTime: ..., memoryUsage: ..., metrics: {
\* toolName, successful, metricsLogged, apiMethod, apiMessage } };
MainAfterUpdate(p) ==
    /\ mn[p].pc = "update"
    /\ up[p].pc = "done"
    /\ mn' = [mn EXCEPT
          ![p].pc = "done",
          ![p].updated = up[p].saved,
          ![p].updateRaised = up[p].raised,
          ![p].report =
              [success |-> TRUE,
               executionTime |-> "elapsed",
               memoryUsage |-> "heapUsed",
               metrics |-> [toolName |-> mn[p].metricsData.tool_name,
                            successful |-> ~mn[p].toolData.error.has,
                            metricsLogged |-> mn[p].logResult.success,
                            apiMethod |-> mn[p].logResult.method,
                            apiMessage |-> mn[p].logResult.message]]]
    /\ up' = [up EXCEPT ![p] = UpIdle]
    /\ UNCHANGED <<fsVars, calls, gs, lm, ex, cli, tc, tr, localStorage>>

\* Variant of MainCatch: the error is rethrown to the caller.
MainCatchRethrow(p) ==
    /\ mn[p].pc = "catch"
    /\ mn' = [mn EXCEPT ![p].pc = "raised"]
    /\ UNCHANGED <<fsVars, calls, gs, lm, up, ex, cli, tc, tr, localStorage>>

\* } catch (error) { ...; return { success: false, executionTime: ...,
\* errorMessage: error.message }; }
MainCatch(p) ==
    /\ mn[p].pc = "catch"
    /\ mn' = [mn EXCEPT ![p].pc = "done",
                        ![p].report = [success |-> FALSE,
                                       executionTime |-> "elapsed",
                                       errorMessage |-> "TypeError"]]
    /\ UNCHANGED <<fsVars, calls, gs, lm, up, ex, cli, tc, tr, localStorage>>

MainStep(p) ==
    \/ MainAfterSession(p)
    \/ MainAfterAgentLog(p)
    \/ MainAfterPrimaryLog(p)
    \/ MainAfterUpdate(p)
    \/ MainCatch(p)

\* ------------------------------------------- simulateToolExecution and CLI
\* process.argv of a direct run: its length, args[2], args[3] (absent or
\* empty, a JSON text with the value it parses to, or a text that is no JSON)
\* and args[4].
NoJson == [kind |-> "absent", value |-> <<>>]

JsonOf(toolInput) == [kind |-> "json", value |-> toolInput]

BadJson == [kind |-> "malformed", value |-> <<>>]

Argv(argc, toolName, json, successArg) ==
    [argc |-> argc, toolName |-> toolName, json |-> json, successArg |-> successArg]

CliIdle ==
    [pc |-> "idle", argv |-> Argv(2, "", NoJson, ""), threw |-> FALSE,
     gotReport |-> FALSE, report |-> NoReport, status |-> 0]

\* Math.random() * 100 + 10, in tenths of a millisecond.
ExecutionTimes == {104, 1095}

\* if (require.main === module) simulateToolExecution(process.argv) ...: up to
\* the first await. With fewer than three arguments the usage is printed and
\* the promise resolves; JSON.parse of a malformed args[3] throws, which
\* rejects it; otherwise main is called with the toolData built from argv.
CliStart(p, argv, env) ==
    /\ cli.pc \in {"idle", "exited"}
    /\ IF argv.argc < 3
       THEN /\ cli' = [CliIdle EXCEPT !.pc = "resolved", !.argv = argv]
            /\ UNCHANGED <<gs, mn>>
       ELSE IF argv.json.kind = "malformed"
       THEN /\ cli' = [CliIdle EXCEPT !.pc = "rejected", !.argv = argv,
                                      !.threw = TRUE]
            /\ UNCHANGED <<gs, mn, tc, tr, localStorage>>
       ELSE /\ cli' = [CliIdle EXCEPT !.pc = "main", !.argv = argv]
            /\ \E executionTime \in ExecutionTimes :
                  MainEnter(p,
                            ToolData(argv.toolName, argv.json.value,
                                     IF argv.successArg # "false" THEN NoError
                                     ELSE ErrorOf("Simulated tool failure"),
                                     executionTime),
                            env)

\* const result = await main(toolData); if (result.success) console.log(...)
\* else console.error(...); and the promise resolves.
CliAfterMain(p) ==
    /\ cli.pc = "main"
    /\ mn[p].pc = "done"
    /\ cli' = [cli EXCEPT !.pc = "resolved", !.gotReport = TRUE,
                          !.report = mn[p].report]
    /\ mn' = [mn EXCEPT ![p] = MnIdle]
    /\ UNCHANGED <<fsVars, calls, gs, lm, up, ex, tc, tr, localStorage>>

\* Variant of CliResolved: the exit status follows the report's success flag.
CliResolvedByReport ==
    /\ cli.pc = "resolved"
    /\ cli' = [cli EXCEPT !.pc = "exited",
                          !.status = IF cli.gotReport /\ ~cli.report.success
                                     THEN 1 ELSE 0]
    /\ UNCHANGED <<fsVars, calls, gs, lm, up, mn, ex, tc, tr, localStorage>>

\* .then(() => process.exit(0))
CliResolved ==
    /\ cli.pc = "resolved"
    /\ cli' = [cli EXCEPT !.pc = "exited", !.status = 0]
    /\ UNCHANGED <<fsVars, calls, gs, lm, up, mn, ex, tc, tr, localStorage>>

\* .catch(error => { console.error(...); process.exit(1); })
CliRejected ==
    /\ cli.pc = "rejected"
    /\ cli' = [cli EXCEPT !.pc = "exited", !.status = 1]
    /\ UNCHANGED <<fsVars, calls, gs, lm, up, mn, ex, tc, tr, localStorage>>

\* ------------------------------------------------------------ initial states
\* The indicators file before the first call: absent, or left by earlier
\* sessions.
InitialIndicators ==
    {AbsentFile,
     DocFile([FreshIndicators(0) EXCEPT !.commands_executed = 1,
                                        !.tools_used = Incremented(<<>>, "Task"),
                                        !.agents_invoked =
                                            Incremented(<<>>, Str(<<"f", "e">>)),
                                        !.success_rate = Rat(1, 2)])}

\* A store without its directory holds no file.
InitFs ==
    /\ metricsDir \in BOOLEAN
    /\ realtimeDir \in BOOLEAN
    /\ realtimeDir => metricsDir
    /\ sessionFile \in SessionFiles
    /\ sessionFile.present => metricsDir
    /\ jsonl = <<>>
    /\ activity = <<>>
    /\ indicators \in InitialIndicators
    /\ indicators.state # "absent" => metricsDir
    /\ dashboardActive \in BOOLEAN
    /\ dashboardActive => metricsDir
    /\ realtimeLog = <<>>
    /\ localStorage = [currentTenantId |-> "", full |-> FALSE]

InitFrames ==
    /\ calls = 0
    /\ gs = [p \in Procs |-> GsIdle]
    /\ lm = [p \in Procs |-> LmIdle]
    /\ up = [p \in Procs |-> UpIdle]
    /\ mn = [p \in Procs |-> MnIdle]
    /\ ex = ExIdle
    /\ cli = CliIdle
    \* TenantProvider as first rendered: state.auth without tenants, useState([]),
    \* useState(false), useState(null); no call of switchTenant has returned.
    /\ tc = [auth |-> [currentTenant |-> <<>>, tenants |-> <<>>],
             userRoles |-> {}, isLoadingTenants |-> FALSE, error |-> "",
             loading |-> FALSE, seenCurrent |-> <<>>, loads |-> 0,
             crashed |-> FALSE,
             last |-> [arg |-> "", threw |-> "",
                       before |-> [currentTenant |-> <<>>, currentTenantId |-> "",
                                   tenants |-> <<>>, userRoles |-> {}]]]
    \* TestRunner as constructed: no run started, no child process.
    /\ tr = [pc |-> "idle", i |-> 0, results |-> <<>>,
             child |-> <<>>, promise |-> <<>>]

\* ------------------------------------------------------------ sample inputs
TextAB == <<"a", "\n", "b">>

TextX == <<"x">>

\* Edit with old_string "a\nb" and new_string "x".
EditInput == [old_string |-> Str(TextAB), new_string |-> Str(TextX)]

\* Write of two lines to a.js.
WriteInput ==
    [file_path |-> Str(<<"a", ".", "j", "s">>), content |-> Str(<<"x", "\n", "y">>)]

\* Task for the sub-agent "fe".
TaskInput == [subagent_type |-> Str(<<"f", "e">>), description |-> Str(<<"c">>)]

GlobInput == [pattern |-> Str(<<"*">>)]

Failure == ErrorOf("Simulated tool failure")

\* Invocations whose event records are applied to the indicators.
UpInputs ==
    {ToolData("Edit", EditInput, NoError, 0),
     ToolData("Edit", EditInput, Failure, 0),
     ToolData("Write", WriteInput, NoError, 0),
     ToolData("Task", TaskInput, NoError, 0),
     ToolData("Glob", GlobInput, Failure, 0)}

\* The record main passes to updateProductivityIndicators for toolData.
EventOf(toolData, now) ==
    LET context == createPostToolUseContext(toolData, now) IN
    MetricsData(context, now, DefaultSession, toolData.executionTime,
                extractToolSpecificMetrics(context, 0).metrics)

\* The agent record main passes to logMetrics for a Task invocation.
AgentEventOf(toolData, now) ==
    LET context == createPostToolUseContext(toolData, now) IN
    AgentMetrics(context, now, toolData.executionTime,
                 extractToolSpecificMetrics(context, 0).metrics)

\* ------------------------------------------- driver of getCurrentSessionId
\* A process of the hook, with its own environment, resolves the session id.
SessionCall(p) ==
    /\ calls < MaxSessionCalls
    /\ calls' = calls + 1
    /\ \E env \in EnvValues : GsEnter(p, env)
    /\ UNCHANGED <<fsVars, lm, up, mn, ex, cli, tc, tr, localStorage>>

\* The caller takes the resolved id.
SessionReturn(p) ==
    /\ gs[p].pc = "done"
    /\ gs' = [gs EXCEPT ![p] = GsIdle]
    /\ UNCHANGED <<fsVars, calls, lm, up, mn, ex, cli, tc, tr, localStorage>>

SessionInit ==
    InitFs /\ InitFrames /\ ~realtimeDir /\ indicators = AbsentFile /\ ~dashboardActive

SessionNext == SessionCall("p1") \/ GsStep("p1") \/ SessionReturn("p1")

SessionSpec == SessionInit /\ [][SessionNext]_vars

\* ------------------------------------------------------ driver of logMetrics
\* Records as main builds them: the primary record of a failed Edit and the
\* agent record of a Task.
SinkRecords ==
    {EventOf(ToolData("Edit", EditInput, Failure, 0), 1),
     AgentEventOf(ToolData("Task", TaskInput, NoError, 124), 1)}

SinkCall(p) ==
    /\ calls < MaxSinkCalls
    /\ calls' = calls + 1
    /\ \E d \in SinkRecords : LmEnter(p, d)
    /\ UNCHANGED <<fsVars, gs, up, mn, ex, cli, tc, tr, localStorage>>

\* The caller takes the outcome.
SinkReturn(p) ==
    /\ lm[p].pc = "done"
    /\ lm' = [lm EXCEPT ![p] = LmIdle]
    /\ UNCHANGED <<fsVars, calls, gs, up, mn, ex, cli, tc, tr, localStorage>>

SinkInit ==
    /\ InitFs /\ InitFrames
    /\ ~sessionFile.present /\ indicators = AbsentFile /\ ~dashboardActive

SinkNext == SinkCall("p1") \/ LmStep("p1") \/ SinkReturn("p1")

SinkSpec == SinkInit /\ [][SinkNext]_vars

\* ------------------------------------ driver of updateProductivityIndicators
\* A record as another caller of the exported function can pass it: a Write
\* without a file path that carries both net_lines and lines_written.
DirectEvent(now) ==
    [event_type |-> "tool_execution", timestamp |-> now, tool_name |-> "Write",
     success |-> TRUE, net_lines |-> -3, lines_written |-> 4]

\* The records of UpInputs as main builds them, the record of a Read (a file
\* path, but not a file-mutating tool), and the direct record.
UpEvents(now) ==
    {EventOf(td, now) : td \in UpInputs}
        \cup {EventOf(ToolData("Read", [file_path |-> Str(<<"a", ".", "j", "s">>)],
                               NoError, 0), now),
              DirectEvent(now)}

UpCall(p) ==
    /\ calls < MaxEvents
    /\ calls' = calls + 1
    /\ \E m \in UpEvents(calls + 1) : UpEnter(p, m)
    /\ UNCHANGED <<fsVars, gs, lm, mn, ex, cli, tc, tr, localStorage>>

\* The caller resumes after the update.
UpReturn(p) ==
    /\ up[p].pc = "done"
    /\ up' = [up EXCEPT ![p] = UpIdle]
    /\ UNCHANGED <<fsVars, calls, gs, lm, mn, ex, cli, tc, tr, localStorage>>

UpInit ==
    /\ InitFs /\ InitFrames
    /\ ~sessionFile.present /\ ~realtimeDir

UpNext == UpCall("p1") \/ UpStep("p1") \/ UpReturn("p1")

UpSpec == UpInit /\ [][UpNext]_vars

\* ------------------- concurrent drivers of updateProductivityIndicators
\* Hook processes run at the same time, one per tool completion, and share
\* the indicators file; nothing orders their steps.
ConcInputs ==
    {ToolData("Edit", EditInput, NoError, 0),
     ToolData("Glob", GlobInput, Failure, 0)}

ConcCall(p) ==
    /\ calls < MaxConcurrentCalls
    /\ calls' = calls + 1
    /\ \E td \in ConcInputs : UpEnter(p, EventOf(td, calls + 1))
    /\ UNCHANGED <<fsVars, gs, lm, mn, ex, cli, tc, tr, localStorage>>

ConcInit ==
    /\ InitFs /\ InitFrames
    /\ ~sessionFile.present /\ ~realtimeDir

ConcNext == \E p \in Procs : ConcCall(p) \/ UpStep(p) \/ UpReturn(p)

ConcSpec == ConcInit /\ [][ConcNext]_vars

\* ------------------------------------------ driver of extractToolSpecificMetrics
\* Values a field of the tool input can hold: strings (empty, one line, two
\* lines, a line with its newline), numbers, a boolean and null.
ExValues ==
    {Str(<<>>), Str(TextX), Str(TextAB), Str(<<"a", "\n">>),
     Num(0), Num(5), Bool(TRUE), Null}

ExKeys == {"file_path", "old_string", "new_string", "content", "command"}

\* Tool-input objects with at most MaxInputKeys of the fields the branches
\* read, each holding any of the values.
ExToolInputs ==
    UNION {[K -> ExValues] : K \in {K \in SUBSET ExKeys : Cardinality(K) <= MaxInputKeys}}

ExToolNames == {"Read", "Edit", "Write", "Bash", "Task", "Glob"}

ExCall ==
    /\ ex.pc = "idle"
    /\ \E toolName \in ExToolNames, toolInput \in ExToolInputs, fileSize \in FileSizes :
          /\ (toolName # "Read") => fileSize = 0
          /\ ExEnter(toolName, toolInput, fileSize)
    /\ UNCHANGED <<fsVars, calls, gs, lm, up, mn, cli, tc, tr, localStorage>>

\* The caller takes the mapping, or the exception.
ExReturn ==
    /\ ex.pc \in {"returned", "raised"}
    /\ ex' = ExIdle
    /\ UNCHANGED <<fsVars, calls, gs, lm, up, mn, cli, tc, tr, localStorage>>

ExtractInit ==
    /\ InitFs /\ InitFrames
    /\ ~metricsDir /\ indicators = AbsentFile

ExtractNext == ExCall \/ ExBody \/ ExReturn

ExtractSpec == ExtractInit /\ [][ExtractNext]_vars

\* ------------------------------------------------------------ driver of main
\* Arguments main is called with: well-formed invocations, an Edit whose
\* old_string is a number, and null.
MainInputs ==
    {ToolData("Task", TaskInput, NoError, 124),
     ToolData("Edit", EditInput, Failure, 0),
     ToolData("", GlobInput, NoError, 0),
     ToolData("Edit", [old_string |-> Num(5)], NoError, 0),
     NullToolData}

MainEnvs == {EnvUnset, [set |-> TRUE, chars |-> <<"e", "1">>]}

MainCall(p) ==
    /\ calls < MaxCalls
    /\ calls' = calls + 1
    /\ \E td \in MainInputs, env \in MainEnvs : MainEnter(p, td, env)
    /\ UNCHANGED <<fsVars, lm, up, ex, cli, tc, tr, localStorage>>

\* The caller takes the report.
MainReturn(p) ==
    /\ mn[p].pc = "done"
    /\ mn' = [mn EXCEPT ![p] = MnIdle]
    /\ UNCHANGED <<fsVars, calls, gs, lm, up, ex, cli, tc, tr, localStorage>>

Init ==
    /\ InitFs /\ InitFrames
    /\ sessionFile.present => sessionFile.chars = <<" ", "f", "1", "\n">>
    /\ realtimeDir = metricsDir

Next ==
    \/ MainCall("p1")
    \/ GsStep("p1")
    \/ LmStep("p1")
    \/ UpStep("p1")
    \/ MainStep("p1")
    \/ MainReturn("p1")

Spec == Init /\ [][Next]_vars

\* ------------------------------------------------------- driver of the CLI
\* Command lines: no tool name; a failed Task with an empty tool input; an
\* Edit whose old_string is a number; a tool input that is no JSON.
CliArgvs ==
    {Argv(2, "", NoJson, ""),
     Argv(5, "Task", NoJson, "false"),
     Argv(4, "Edit", JsonOf([old_string |-> Num(5)]), ""),
     Argv(4, "Task", BadJson, "")}

\* node tool-metrics.js ...: a run of the script as the main module, from a
\* shell that does not set CLAUDE_SESSION_ID.
CliRun(p) ==
    /\ calls < MaxCliRuns
    /\ calls' = calls + 1
    /\ \E argv \in CliArgvs : CliStart(p, argv, EnvUnset)
    /\ UNCHANGED <<fsVars, lm, up, ex, tc, tr, localStorage>>

CliNext ==
    \/ CliRun("p1")
    \/ GsStep("p1")
    \/ LmStep("p1")
    \/ UpStep("p1")
    \/ MainStep("p1")
    \/ CliAfterMain("p1")
    \/ CliResolved
    \/ CliRejected

CliSpec == Init /\ [][CliNext]_vars

\* ------------------------------------------------- main under fair scheduling
\* The store of an installation in use: every file main looks for is there,
\* so every I/O step of a call can both succeed and fail.
LiveInit ==
    /\ Init
    /\ metricsDir /\ sessionFile.present /\ dashboardActive
    /\ indicators.state = "ok"

\* A Task (the longest path: two records, then the update), an Edit on which
\* the extraction throws, and null, on which building the context throws.
LiveInputs ==
    {ToolData("Task", TaskInput, Failure, 124),
     ToolData("Edit", [old_string |-> Num(5)], NoError, 0),
     NullToolData}

LiveCall(p) ==
    /\ calls < MaxLiveCalls
    /\ calls' = calls + 1
    /\ \E td \in LiveInputs, env \in MainEnvs : MainEnter(p, td, env)
    /\ UNCHANGED <<fsVars, lm, up, ex, cli, tc, tr, localStorage>>

LiveNext ==
    \/ LiveCall("p1")
    \/ GsStep("p1")
    \/ LmStep("p1")
    \/ UpStep("p1")
    \/ MainStep("p1")
    \/ MainReturn("p1")

\* Every step of a started call is a continuation the event loop runs once
\* its I/O operation has completed or failed; only the caller's next call is
\* not forced.
LiveSpec ==
    /\ LiveInit
    /\ [][LiveNext]_vars
    /\ WF_vars(GsStep("p1"))
    /\ WF_vars(LmStep("p1"))
    /\ WF_vars(UpStep("p1"))
    /\ WF_vars(MainStep("p1"))

\* ------------------------------------------------- dashboard: TenantProvider
\* contexts/TenantContext.tsx. A tenant object is [id, gen]: gen tells the
\* objects of one response from those of another (they are compared by
\* reference at line 105). currentTenant is <<>> for null, else <<tenant>>;
\* userRoles is the set of tenant ids the user holds a role for (line 174 only
\* tests role.tenantId); localStorage.currentTenantId is "" when the key is
\* not set; localStorage.full makes setItem throw.
TenantIds == {"t1", "t2"}

\* The reducers of store/slices/authSlice behind dispatch(setCurrentTenant(x))
\* and dispatch(setTenants(xs)): each stores its payload in the field that
\* useAppSelector((state) => state.auth) reads back.
AuthReducer(auth, type, payload) ==
    IF type = "setCurrentTenant" THEN [auth EXCEPT !.currentTenant = <<payload>>]
    ELSE IF type = "setTenants" THEN [auth EXCEPT !.tenants = payload]
    ELSE auth

\* useEffect(() => { const savedTenantId = localStorage.getItem(...); ... },
\* [tenants, currentTenant, dispatch]): run by React after a render in which
\* tenants or currentTenant changed. One run reaches its fixed point; a
\* setItem that throws inside the effect takes the provider down.
RestoreSavedTenant(t, ls) ==
    LET tenants == t.auth.tenants
        saved == ls.currentTenantId
        found == {i \in DOMAIN tenants : tenants[i].id = saved}
        first == CHOOSE i \in found : \A j \in found : i <= j
    IN  IF saved # "" /\ Len(tenants) > 0
        THEN IF found # {} /\ <<tenants[first]>> # t.auth.currentTenant
             THEN [tc |-> [t EXCEPT !.auth = AuthReducer(t.auth, "setCurrentTenant",
                                                         tenants[first])],
                   ls |-> ls]
             ELSE [tc |-> t, ls |-> ls]
        ELSE IF Len(tenants) > 0 /\ t.auth.currentTenant = <<>>
        THEN [tc |-> [t EXCEPT !.auth = AuthReducer(t.auth, "setCurrentTenant",
                                                    tenants[1]),
                               !.crashed = ls.full],
              ls |-> IF ls.full THEN ls
                     ELSE [ls EXCEPT !.currentTenantId = tenants[1].id]]
        ELSE [tc |-> t, ls |-> ls]

\* const loadTenants = async () => { try { setIsLoadingTenants(true);
\* setError(null); const response = await authApi.getTenant(): up to the
\* await. The function keeps the currentTenant of the render it was made in.
LoadTenantsStart ==
    /\ ~tc.crashed /\ ~tc.loading
    /\ tc.loads < MaxLoads
    /\ tc' = [tc EXCEPT !.loading = TRUE, !.loads = tc.loads + 1,
                        !.seenCurrent = tc.auth.currentTenant,
                        !.isLoadingTenants = TRUE, !.error = "",
                        !.last = [tc.last EXCEPT !.arg = ""]]
    /\ UNCHANGED <<fsVars, calls, gs, lm, up, mn, ex, cli, tr, localStorage>>

\* The rest of loadTenants: dispatch(setTenants(tenantsData)); if
\* (!currentTenant && tenantsData.length > 0) { dispatch(setCurrentTenant(
\* tenantsData[0])); localStorage.setItem(...) } else if (tenantsData.length
\* === 0) setError(...); catch: setError(one of two messages); finally
\* setIsLoadingTenants(false). Then the effect of the render that follows.
LoadTenantsDone ==
    /\ ~tc.crashed /\ tc.loading
    /\ \E ok \in BOOLEAN, msg \in {"Tenant configuration issue", "Failed to load tenants"},
          ids \in {q \in UNION {[1..n -> TenantIds] : n \in 0..Cardinality(TenantIds)} :
                      \A a, b \in DOMAIN q : q[a] = q[b] => a = b} :
        LET tenantsData == [k \in DOMAIN ids |-> [id |-> ids[k], gen |-> tc.loads]]
            auth1 == AuthReducer(tc.auth, "setTenants", tenantsData)
            setFirst == tc.seenCurrent = <<>> /\ Len(tenantsData) > 0
            auth2 == IF setFirst
                     THEN AuthReducer(auth1, "setCurrentTenant", tenantsData[1])
                     ELSE auth1
            done == [tc EXCEPT !.loading = FALSE, !.isLoadingTenants = FALSE,
                               !.last = [tc.last EXCEPT !.arg = ""]]
            after ==
                IF ~ok THEN [tc |-> [done EXCEPT !.error = msg], ls |-> localStorage]
                ELSE IF setFirst /\ localStorage.full
                THEN [tc |-> [done EXCEPT !.auth = auth2, !.error = msg],
                      ls |-> localStorage]
                ELSE [tc |-> [done EXCEPT
                                !.auth = auth2,
                                !.error = IF Len(tenantsData) = 0
                                          THEN "No tenants available" ELSE ""],
                      ls |-> IF setFirst
                             THEN [localStorage EXCEPT
                                       !.currentTenantId = tenantsData[1].id]
                             ELSE localStorage]
            settled == RestoreSavedTenant(after.tc, after.ls)
        IN  /\ (ok /\ ~(setFirst /\ localStorage.full)) => msg = "Failed to load tenants"
            /\ ~ok => ids = <<>>
            /\ tc' = settled.tc
            /\ localStorage' = settled.ls
    /\ UNCHANGED <<fsVars, calls, gs, lm, up, mn, ex, cli, tr>>

\* const loadUserRoles = async () => { try { const response = await
\* authApi.getTenant(); setUserRoles(response.data.data.roles || []) } catch
\* {...} }: on the response; a failed request changes nothing.
LoadUserRoles ==
    /\ ~tc.crashed
    /\ \E roles \in SUBSET TenantIds :
          /\ roles # tc.userRoles
          /\ tc' = [tc EXCEPT !.userRoles = roles,
                              !.last = [tc.last EXCEPT !.arg = ""]]
    /\ UNCHANGED <<fsVars, calls, gs, lm, up, mn, ex, cli, tr, localStorage>>

\* Variant of SwitchTenant: the user's roles are not consulted.
SwitchTenantNoAccessCheck(tenantId) ==
    /\ ~tc.crashed
    /\ LET tenants == tc.auth.tenants
           found == {i \in DOMAIN tenants : tenants[i].id = tenantId}
           first == CHOOSE i \in found : \A j \in found : i <= j
           call == [arg |-> tenantId, threw |-> "",
                    before |-> [currentTenant |-> tc.auth.currentTenant,
                                currentTenantId |-> localStorage.currentTenantId,
                                tenants |-> tenants, userRoles |-> tc.userRoles]]
       IN  IF found = {}
           THEN /\ tc' = [tc EXCEPT !.last = [call EXCEPT !.threw = "Tenant not found"]]
                /\ UNCHANGED localStorage
           ELSE LET switched ==
                        [tc EXCEPT !.auth = AuthReducer(tc.auth, "setCurrentTenant",
                                                        tenants[first]),
                                   !.last = [call EXCEPT !.threw =
                                                IF localStorage.full
                                                THEN "QuotaExceededError" ELSE ""]]
                    stored == IF localStorage.full THEN localStorage
                              ELSE [localStorage EXCEPT !.currentTenantId = tenantId]
                    settled == RestoreSavedTenant(switched, stored)
                IN  /\ tc' = settled.tc
                    /\ localStorage' = settled.ls
    /\ UNCHANGED <<fsVars, calls, gs, lm, up, mn, ex, cli, tr>>

\* const switchTenant = async (tenantId) => { try { const tenant =
\* tenants.find(...); if (!tenant) throw ...; const hasAccess =
\* userRoles.some(...); if (!hasAccess) throw ...; dispatch(setCurrentTenant(
\* tenant)); localStorage.setItem('currentTenantId', tenantId); toast.success
\* } catch (error) { ...; throw error } }. The body has no await: it runs in
\* one step, followed by the effect of the render its dispatch causes.
\* last.threw is the message of the error the returned promise rejects with.
SwitchTenant(tenantId) ==
    /\ ~tc.crashed
    /\ LET tenants == tc.auth.tenants
           found == {i \in DOMAIN tenants : tenants[i].id = tenantId}
           first == CHOOSE i \in found : \A j \in found : i <= j
           hasAccess == \E r \in tc.userRoles : r = tenantId
           call == [arg |-> tenantId, threw |-> "",
                    before |-> [currentTenant |-> tc.auth.currentTenant,
                                currentTenantId |-> localStorage.currentTenantId,
                                tenants |-> tenants, userRoles |-> tc.userRoles]]
       IN  IF found = {}
           THEN /\ tc' = [tc EXCEPT !.last = [call EXCEPT !.threw = "Tenant not found"]]
                /\ UNCHANGED localStorage
           ELSE IF ~hasAccess
           THEN /\ tc' = [tc EXCEPT !.last = [call EXCEPT !.threw =
                                                 "Access denied to this tenant"]]
                /\ UNCHANGED localStorage
           ELSE LET switched ==
                        [tc EXCEPT !.auth = AuthReducer(tc.auth, "setCurrentTenant",
                                                        tenants[first]),
                                   !.last = [call EXCEPT !.threw =
                                                IF localStorage.full
                                                THEN "QuotaExceededError" ELSE ""]]
                    stored == IF localStorage.full THEN localStorage
                              ELSE [localStorage EXCEPT !.currentTenantId = tenantId]
                    settled == RestoreSavedTenant(switched, stored)
                IN  /\ tc' = settled.tc
                    /\ localStorage' = settled.ls
    /\ UNCHANGED <<fsVars, calls, gs, lm, up, mn, ex, cli, tr>>

\* The dashboard in a browser: no hook process runs, the metrics store plays
\* no part; localStorage may hold an id saved by an earlier visit (of a tenant
\* that still exists or not) and may be full.
DashboardInit ==
    /\ InitFrames
    /\ metricsDir = FALSE /\ realtimeDir = FALSE /\ dashboardActive = FALSE
    /\ sessionFile = [present |-> FALSE, chars |-> <<>>]
    /\ jsonl = <<>> /\ activity = <<>> /\ realtimeLog = <<>>
    /\ indicators = AbsentFile
    /\ localStorage \in [currentTenantId : {"", "t1", "zz"}, full : BOOLEAN]

TenantNext ==
    \/ LoadTenantsStart
    \/ LoadTenantsDone
    \/ LoadUserRoles
    \/ \E tenantId \in TenantIds \cup {"zz"} : SwitchTenant(tenantId)

TenantSpec == DashboardInit /\ [][TenantNext]_vars

\* ------------------------------------------------------ dashboard: TestRunner
\* dist/tests/test-runner.js. tr.child[k] is the child process of suite k:
\* "none" (not spawned), "running", "errored" ('error' emitted, 'close' may
\* follow) or "closed"; tr.promise[k] is the promise runTestSuite returned for
\* it; tr.i is the suite the loop of runAllTests is at.
testSuites ==
    <<[name |-> "Unit Tests - Authentication", script |-> "test auth"],
      [name |-> "Unit Tests - Database", script |-> "test database"],
      [name |-> "Unit Tests - Services", script |-> "test services"],
      [name |-> "Unit Tests - Middleware", script |-> "test middleware"],
      [name |-> "Integration Tests", script |-> "test:integration"],
      [name |-> "Full Test Suite", script |-> "test:coverage"]>>

\* async runTestSuite(suite) { return new Promise((resolve) => { const process
\* = spawn(suite.command, suite.args, {...}); ...on('data')...; process.on(
\* 'close', ...); process.on('error', ...); }); }: the executor runs at once;
\* a process that cannot be started is reported by its 'error' event.
RunTestSuite(t, k) ==
    [t EXCEPT !.child[k] = "running", !.promise[k].state = "pending"]

\* async runAllTests() { const results = []; for (const suite of
\* this.testSuites) { ...; const result = await this.runTestSuite(suite): up to
\* the first await.
RunAllTests ==
    /\ tr.pc \in {"idle", "done"}
    /\ tr' = RunTestSuite(
                [pc |-> "await", i |-> 1, results |-> <<>>,
                 child |-> [k \in DOMAIN testSuites |-> "none"],
                 promise |-> [k \in DOMAIN testSuites |->
                                [state |-> "none",
                                 value |-> [suite |-> "", passed |-> FALSE,
                                            coverage |-> FALSE, errors |-> ""]]]],
                1)
    /\ UNCHANGED <<fsVars, calls, gs, lm, up, mn, ex, cli, tc, localStorage>>

\* process.on('close', (code) => { const passed = code === 0; const coverage =
\* this.extractCoverage(stdout); const errors = this.extractErrors(stderr,
\* stdout); resolve({ suite: suite.name, passed, coverage, errors }); });
\* coverage is present when the output held a coverage table. resolve on a
\* settled promise does nothing.
OnClose(k) ==
    /\ tr.pc # "idle"
    /\ tr.child[k] \in {"running", "errored"}
    /\ \E code \in {0, 1}, coverage \in BOOLEAN :
          tr' = [tr EXCEPT
                    !.child[k] = "closed",
                    !.promise[k] =
                        IF tr.promise[k].state = "pending"
                        THEN [state |-> "resolved",
                              value |-> [suite |-> testSuites[k].name,
                                         passed |-> (code = 0),
                                         coverage |-> coverage,
                                         errors |-> "extracted"]]
                        ELSE tr.promise[k]]
    /\ UNCHANGED <<fsVars, calls, gs, lm, up, mn, ex, cli, tc, localStorage>>

\* Variant of OnError: the promise is rejected with the error.
OnErrorRejects(k) ==
    /\ tr.pc # "idle"
    /\ tr.child[k] = "running"
    /\ tr' = [tr EXCEPT
                !.child[k] = "errored",
                !.promise[k] =
                    IF tr.promise[k].state = "pending"
                    THEN [tr.promise[k] EXCEPT !.state = "rejected"]
                    ELSE tr.promise[k]]
    /\ UNCHANGED <<fsVars, calls, gs, lm, up, mn, ex, cli, tc, localStorage>>

\* process.on('error', (error) => { resolve({ suite: suite.name, passed:
\* false, errors: [error.message] }); });
OnError(k) ==
    /\ tr.pc # "idle"
    /\ tr.child[k] = "running"
    /\ tr' = [tr EXCEPT
                !.child[k] = "errored",
                !.promise[k] =
                    IF tr.promise[k].state = "pending"
                    THEN [state |-> "resolved",
                          value |-> [suite |-> testSuites[k].name,
                                     passed |-> FALSE,
                                     coverage |-> FALSE,
                                     errors |-> "message"]]
                    ELSE tr.promise[k]]
    /\ UNCHANGED <<fsVars, calls, gs, lm, up, mn, ex, cli, tc, localStorage>>

\* The loop resumes with the awaited result: results.push({ ...result,
\* duration }); this.printTestResult(result, duration); then the next
\* iteration up to its await, or this.printSummary(results); return results.
RunAllTestsResume ==
    /\ tr.pc = "await"
    /\ tr.promise[tr.i].state = "resolved"
    /\ LET result == tr.promise[tr.i].value
           pushed == [tr EXCEPT !.results =
                         Append(tr.results,
                                [suite |-> result.suite, passed |-> result.passed,
                                 coverage |-> result.coverage,
                                 errors |-> result.errors,
                                 duration |-> "elapsed"])]
       IN  tr' = IF tr.i < Len(testSuites)
                 THEN RunTestSuite([pushed EXCEPT !.i = tr.i + 1], tr.i + 1)
                 ELSE [pushed EXCEPT !.pc = "done"]
    /\ UNCHANGED <<fsVars, calls, gs, lm, up, mn, ex, cli, tc, localStorage>>

RunnerNext ==
    \/ RunAllTests
    \/ \E k \in DOMAIN testSuites : OnClose(k) \/ OnError(k)
    \/ RunAllTestsResume

RunnerSpec == DashboardInit /\ [][RunnerNext]_vars

\* ------------------------------------------------------------------- claims
\* r is s without its leading and trailing whitespace: s = pre \o r \o post
\* with pre and post all whitespace and r not starting or ending with one.
IsTrimOf(r, s) ==
    /\ r = <<>> \/ (Head(r) \notin WS /\ r[Len(r)] \notin WS)
    /\ \E i \in 0..Len(s) :
          /\ i + Len(r) <= Len(s)
          /\ \A k \in 1..Len(r) : s[i + k] = r[k]
          /\ \A k \in 1..i : s[k] \in WS
          /\ \A k \in (i + Len(r) + 1)..Len(s) : s[k] \in WS

\* C9 as stated, read in its most favourable way ("set" as set to a
\* non-empty value, "present" as found and read without error):
\* getCurrentSessionId returns the environment variable when it is set, else
\* the trimmed content of the file when the file is present, else
\* "default-session".
C9_AsStated ==
    LET f == gs["p1"]
        envSet == f.env.set /\ f.env.chars # <<>>
        filePresent == f.found /\ ~f.readRaised
    IN  f.pc = "done" =>
            /\ envSet => f.result = f.env.chars
            /\ (~envSet /\ filePresent) => IsTrimOf(f.result, sessionFile.chars)
            /\ (~envSet /\ ~filePresent) => f.result = DefaultSession

\* C9 (amended): a non-empty CLAUDE_SESSION_ID is returned regardless of the
\* file; when the variable is unset or empty and the file is found, read
\* without error and not blank, its trimmed content is returned; in every
\* other case the result is "default-session".
C9_SessionPriority ==
    LET f == gs["p1"]
        envOk == f.env.set /\ f.env.chars # <<>>
        fileOk == /\ f.found
                  /\ ~f.readRaised
                  /\ \E k \in 1..Len(sessionFile.chars) : sessionFile.chars[k] \notin WS
    IN  f.pc = "done" =>
            /\ envOk => f.result = f.env.chars
            /\ (~envOk /\ fileOk) =>
                  f.result # <<>> /\ IsTrimOf(f.result, sessionFile.chars)
            /\ (~envOk /\ ~fileOk) => f.result = DefaultSession

\* C9 witness: the variable is unset, the file holds " f1\n" and the call
\* returned "f1".
C9_Witness ==
    LET f == gs["p1"] IN
    /\ f.pc = "done"
    /\ ~f.env.set
    /\ sessionFile.present
    /\ sessionFile.chars = <<" ", "f", "1", "\n">>
    /\ f.result = <<"f", "1">>

\* C10: getCurrentSessionId never raises and returns a non-empty string; when
\* reading the file raised, or the file was not found, with no usable
\* environment variable, it returns "default-session".
C10_SessionTotal ==
    LET f == gs["p1"] IN
    /\ f.pc # "raised"
    /\ f.pc = "done" =>
          /\ f.result # <<>>
          /\ f.readRaised => f.result = DefaultSession
          /\ (~(f.env.set /\ f.env.chars # <<>>) /\ ~f.found) =>
                f.result = DefaultSession

\* C10 witness: the file was found, reading it raised, the call returned.
C10_Witness ==
    LET f == gs["p1"] IN
    f.pc = "done" /\ f.found /\ f.readRaised /\ f.result = DefaultSession

\* C1: when the remote submission raised, logMetrics returns success=true
\* with method "local_fallback" if every local write succeeded, and
\* success=false if the local fallback raised.
C1_SinkFallback ==
    LET f == lm["p1"] IN
    (f.pc = "done" /\ f.remoteRaised) =>
        /\ f.lfOk => (f.result.success /\ f.result.method = "local_fallback")
        /\ ~f.lfOk => ~f.result.success

\* C1 witness: the API client threw, the fallback of the catch branch wrote
\* both lines and the call returned success.
C1_Witness ==
    LET f == lm["p1"] IN
    /\ f.pc = "done" /\ f.remoteRaised /\ f.mode = "catch" /\ f.lfOk
    /\ Len(jsonl) = f.jsonl0 + 1 /\ Len(activity) = f.act0 + 1
    /\ f.result.success

\* C2: logMetrics never raises; whatever failed, it returns an outcome with a
\* boolean success flag and a method.
C2_SinkNeverRaises ==
    LET f == lm["p1"] IN
    /\ f.pc # "raised"
    /\ f.pc = "done" =>
          /\ f.result.success \in BOOLEAN
          /\ f.result.method \in {"remote", "local_fallback"}

\* C2 witness: the API client threw and the fallback of the catch branch
\* raised too; the call returned an outcome.
C2_Witness ==
    LET f == lm["p1"] IN
    /\ f.pc = "done" /\ f.remoteRaised /\ f.mode = "catch" /\ ~f.lfOk
    /\ ~f.result.success

C3_MainNeverRaises ==
    LET f == mn["p1"] IN
    /\ f.pc # "raised"
    /\ (f.pc = "done" /\ f.threw) =>
          /\ f.report.success = FALSE
          /\ DOMAIN f.report = {"success", "executionTime", "errorMessage"}

\* C3 witness: extractToolSpecificMetrics threw on an Edit whose old_string
\* is a number, after the session id was resolved, and main returned.
C3_Witness ==
    LET f == mn["p1"] IN
    /\ f.pc = "done" /\ f.threw /\ ~f.toolData.isNull
    /\ f.toolData.toolName = "Edit"
    /\ ~f.report.success

\* C4: a call of main that ran without an internal exception has passed to
\* the sink exactly one "tool_execution" record, preceded by exactly one
\* "agent_invocation" record if and only if the tool name is "Task".
C4_RecordsPerCall ==
    LET f == mn["p1"] IN
    (f.pc = "done" /\ ~f.threw) =>
        f.sunk = IF f.toolData.toolName = "Task"
                 THEN <<"agent_invocation", "tool_execution">>
                 ELSE <<"tool_execution">>

\* C4 witness: a Task call has returned a successful report after both
\* records went to the sink.
C4_Witness ==
    LET f == mn["p1"] IN
    /\ f.pc = "done" /\ ~f.threw /\ f.report.success
    /\ f.toolData.toolName = "Task"
    /\ f.sunk = <<"agent_invocation", "tool_execution">>

\* The success_rate a call of updateProductivityIndicators starts from: the
\* persisted one, or 100 when the document is absent.
PriorRate(file) == IF file.state = "ok" THEN file.doc.success_rate ELSE Rat(100, 1)

PriorCommands(file) == IF file.state = "ok" THEN file.doc.commands_executed ELSE 0

\* C6: no step increases the persisted success_rate (a first document holds
\* at most 100), and the document saved for a success event holds the
\* success_rate it was loaded with.
C6_RateNeverIncreases ==
    [][(indicators' # indicators /\ indicators'.state = "ok") =>
          /\ RatLeq(indicators'.doc.success_rate, PriorRate(indicators))
          /\ up["p1"].metrics.success =>
                indicators'.doc.success_rate = PriorRate(indicators)]_vars

\* C6 witness: a success event was saved on a document whose success_rate an
\* earlier failure had lowered to 99, and the rate is still 99.
C6_Witness ==
    LET f == up["p1"] IN
    /\ f.saved /\ f.metrics.success
    /\ f.before.state = "ok"
    /\ f.before.doc.success_rate = [num |-> 99, den |-> 1]
    /\ indicators.state = "ok"
    /\ indicators.doc.success_rate = [num |-> 99, den |-> 1]

\* C7: the document saved for a failure event holds max(0, prior - 1/n), n
\* being the commands_executed it is saved with; from an absent document two
\* consecutive failures give 99 and then 98.5 (197/2); the rate is never
\* negative.
C7_FailurePenalty ==
    LET f == up["p1"]
        p == PriorRate(f.before)
        r == indicators.doc.success_rate
        n == indicators.doc.commands_executed
    IN  /\ indicators.state = "ok" => (r.num >= 0 /\ r.den > 0)
        /\ (f.saved /\ ~f.metrics.success) =>
              /\ n = PriorCommands(f.before) + 1
              /\ IF p.num * n - p.den >= 0
                 THEN r.num * (p.den * n) = (p.num * n - p.den) * r.den
                 ELSE r.num = 0
              /\ f.before.state = "absent" => r = [num |-> 99, den |-> 1]
              /\ (f.before.state = "ok" /\ f.before.doc.commands_executed = 1
                    /\ f.before.doc.success_rate = [num |-> 99, den |-> 1]) =>
                    r = [num |-> 197, den |-> 2]

\* C7 witness: the second of two consecutive failures from an absent document
\* has been saved with success_rate 98.5.
C7_Witness ==
    LET f == up["p1"] IN
    /\ f.saved /\ ~f.metrics.success
    /\ f.before.state = "ok"
    /\ f.before.doc.commands_executed = 1
    /\ f.before.doc.success_rate = [num |-> 99, den |-> 1]
    /\ indicators.doc.commands_executed = 2
    /\ indicators.doc.success_rate = [num |-> 197, den |-> 2]

\* C8: every step that saves the document raises the persisted
\* commands_executed by exactly 1 (from 0 when there was no document), so it
\* never decreases.
C8_CommandsCount ==
    [][(indicators' # indicators /\ indicators'.state = "ok") =>
          indicators'.doc.commands_executed = PriorCommands(indicators) + 1]_vars

\* C8 witness: a call has saved commands_executed = 2 over a document that
\* held 1.
C8_Witness ==
    LET f == up["p1"] IN
    /\ f.saved /\ f.before.state = "ok"
    /\ f.before.doc.commands_executed = 1
    /\ indicators.state = "ok"
    /\ indicators.doc.commands_executed = 2

\* C11: a failure inside updateProductivityIndicators (load, parse, save or
\* the append to the real-time log) never escapes it, and the report of a
\* call of main that did not throw is success=true with the summary built
\* from the primary record and its sink outcome, whether or not the update
\* failed.
C11_UpdateSwallowed ==
    LET f == mn["p1"] IN
    /\ up["p1"].pc # "raised"
    /\ (f.pc = "done" /\ ~f.threw) =>
          /\ f.report.success = TRUE
          /\ f.report.metrics =
                [toolName |-> f.metricsData.tool_name,
                 successful |-> f.metricsData.success,
                 metricsLogged |-> f.logResult.success,
                 apiMethod |-> f.logResult.method,
                 apiMessage |-> f.logResult.message]

\* C11 witness: the update raised before the document was saved, and main
\* returned a successful report.
C11_Witness ==
    LET f == mn["p1"] IN
    /\ f.pc = "done" /\ f.updateRaised /\ ~f.updated
    /\ f.report.success

\* C12 as stated: extractToolSpecificMetrics never raises; for every tool
\* name and every tool-input object, whatever its fields hold, a call ends
\* with a returned mapping.
C12_ExtractTotal ==
    /\ ex.pc # "raised"
    /\ ex.pc = "returned" => ex.result.ok

\* Number of newline-separated segments of a string.
Segments(s) == Cardinality({i \in 1..Len(s) : s[i] = "\n"}) + 1

\* Line count of field key of a tool input: 0 when the field is absent or
\* holds an empty (falsy) value.
LinesOf(toolInput, key) ==
    IF key \in DOMAIN toolInput /\ JsTruthy(toolInput[key])
    THEN Segments(toolInput[key].s) ELSE 0

\* C13: the metrics returned for an Edit have lines_added and lines_removed
\* equal to the line counts of new_string and old_string (0 for an empty or
\* absent string, else the number of newline-separated segments), and
\* net_lines = lines_added - lines_removed.
C13_EditLineCounts ==
    (ex.pc = "returned" /\ ex.tool_name = "Edit") =>
        LET m == ex.result.metrics IN
        /\ m.lines_added = LinesOf(ex.tool_input, "new_string")
        /\ m.lines_removed = LinesOf(ex.tool_input, "old_string")
        /\ m.net_lines = m.lines_added - m.lines_removed

\* C13 witness: an Edit with old_string "a\nb" and an empty new_string
\* returned lines_removed 2, lines_added 0, net_lines -2.
C13_Witness ==
    /\ ex.pc = "returned" /\ ex.tool_name = "Edit"
    /\ ex.tool_input = [old_string |-> Str(TextAB), new_string |-> Str(<<>>)]
    /\ ex.result.metrics.lines_removed = 2
    /\ ex.result.metrics.lines_added = 0
    /\ ex.result.metrics.net_lines = -2

\* commands_executed of the document a call of updateProductivityIndicators
\* started from (0 for a fresh document), for a call past its load.
BaseCommands(p) == up[p].indicators.commands_executed - 1

\* C14: two calls of updateProductivityIndicators by different processes are
\* not serialised: whenever both have saved their document after starting
\* from the same base, the persisted commands_executed is base+1, not base+2
\* (one update is lost).
C14_LostUpdate ==
    (/\ up["p1"].pc = "done" /\ up["p2"].pc = "done"
     /\ up["p1"].saved /\ up["p2"].saved
     /\ BaseCommands("p1") = BaseCommands("p2")) =>
        /\ indicators.state = "ok"
        /\ indicators.doc.commands_executed = BaseCommands("p1") + 1

\* C14 witness: both processes read the document holding commands_executed 1
\* before either saved, both saved, and the file holds 2.
C14_Witness ==
    /\ up["p1"].pc = "done" /\ up["p2"].pc = "done"
    /\ up["p1"].loaded /\ up["p2"].loaded
    /\ up["p1"].saved /\ up["p2"].saved
    /\ BaseCommands("p1") = 1 /\ BaseCommands("p2") = 1
    /\ indicators.state = "ok"
    /\ indicators.doc.commands_executed = 2

\* C15: when every I/O operation eventually completes or fails, every call of
\* main eventually returns a report; and a record is submitted remotely at
\* most once and stored by the local fallback at most once (no retry).
C15_MainTerminates ==
    /\ (mn["p1"].pc \notin {"idle", "done"}) ~> (mn["p1"].pc = "done")
    /\ [](lm["p1"].sends <= 1 /\ lm["p1"].lfRuns <= 1)

\* C15 witness: a Task call of main has returned its report after each of its
\* two records was submitted once, failed remotely and was stored by the
\* local fallback.
C15_Witness ==
    /\ mn["p1"].pc = "done" /\ mn["p1"].report.success
    /\ mn["p1"].sunk = <<"agent_invocation", "tool_execution">>
    /\ mn["p1"].agentResult.method = "local_fallback"
    /\ mn["p1"].logResult.method = "local_fallback"

\* C16: a run of the script exits with status 0 whenever main returned a
\* report, whatever the report says, and with a non-zero status only when
\* simulateToolExecution itself threw.
C16_ExitStatus ==
    cli.pc = "exited" =>
        /\ cli.gotReport => cli.status = 0
        /\ cli.status # 0 => (cli.threw /\ ~cli.gotReport)

\* C16 witness: main caught an exception and returned a success=false
\* report, and the process exited with status 0.
C16_Witness ==
    /\ cli.pc = "exited" /\ cli.gotReport
    /\ ~cli.report.success
    /\ cli.status = 0

\* s is an initial part of t.
IsPrefix(s, t) == Len(s) <= Len(t) /\ SubSeq(t, 1, Len(s)) = s

\* Number of entries of seq equal to x.
Occurrences(seq, x) == Cardinality({i \in 1..Len(seq) : seq[i] = x})

\* C17: every step leaves the earlier content of tool-metrics.jsonl in place
\* (the new content extends it), and main hands each record it has built to
\* the sink exactly once: no record twice at any time, and by the time main
\* returns, the primary record once and, for a Task, the agent record once.
C17_AppendOnly ==
    /\ [][IsPrefix(jsonl, jsonl')]_vars
    /\ [](LET f == mn["p1"] IN
          /\ Occurrences(f.sunk, "tool_execution") <= 1
          /\ Occurrences(f.sunk, "agent_invocation") <= 1
          /\ (f.pc = "done" /\ f.metricsData # NoRecord) =>
                /\ Occurrences(f.sunk, "tool_execution") = 1
                /\ Occurrences(f.sunk, "agent_invocation") =
                      IF f.metricsData.tool_name = "Task" THEN 1 ELSE 0)

\* C17 witness: a Task call has returned; the local fallback stored its agent
\* record and then its primary record, and the log holds both in that order.
C17_Witness ==
    LET f == mn["p1"] IN
    /\ f.pc = "done" /\ f.metricsData # NoRecord
    /\ f.sunk = <<"agent_invocation", "tool_execution">>
    /\ Len(jsonl) = 2
    /\ jsonl[1].event_type = "agent_invocation"
    /\ jsonl[2] = f.metricsData

\* C18: in a Task call of main, while the agent record is with the sink
\* nothing else has been submitted; the primary record is submitted only
\* after the agent record's submission returned its outcome; and the
\* indicators update runs only after the primary submission returned.
C18_TaskOrder ==
    LET f == mn["p1"] IN
    /\ f.pc = "agent_log" =>
          /\ lm["p1"].pc # "idle"
          /\ lm["p1"].data.event_type = "agent_invocation"
          /\ f.sunk = <<"agent_invocation">>
          /\ up["p1"].pc = "idle"
    /\ (f.pc = "primary_log" /\ f.metricsData.tool_name = "Task") =>
          /\ f.agentResult.method # "none"
          /\ lm["p1"].data = f.metricsData
          /\ f.sunk = <<"agent_invocation", "tool_execution">>
          /\ up["p1"].pc = "idle"
    /\ up["p1"].pc # "idle" =>
          /\ f.pc = "update"
          /\ f.logResult.method # "none"
          /\ lm["p1"].pc = "idle"

\* C18 witness: in a Task call both submissions have returned, in that order,
\* and the indicators update is running.
C18_Witness ==
    LET f == mn["p1"] IN
    /\ f.pc = "update" /\ f.metricsData.tool_name = "Task"
    /\ f.sunk = <<"agent_invocation", "tool_execution">>
    /\ f.agentResult.method # "none" /\ f.logResult.method # "none"
    /\ up["p1"].pc = "read"

\* The document a sequential call of updateProductivityIndicators started
\* from: the persisted one, or a fresh one when there was no file.
PriorDoc(file) == IF file.state = "ok" THEN file.doc ELSE NoDoc

\* C19: the document saved for an event holds lines_changed grown by
\* |net_lines| when the event carries net_lines (also when it carries
\* lines_written too), else by lines_written when it carries that, else
\* unchanged.
C19_LinesChanged ==
    LET f == up["p1"]
        m == f.metrics
        prior == PriorDoc(f.before).lines_changed
        now == indicators.doc.lines_changed
    IN  f.saved =>
            /\ "net_lines" \in DOMAIN m =>
                  now = prior + (IF m.net_lines < 0 THEN -m.net_lines ELSE m.net_lines)
            /\ ("net_lines" \notin DOMAIN m /\ "lines_written" \in DOMAIN m) =>
                  now = prior + m.lines_written
            /\ ("net_lines" \notin DOMAIN m /\ "lines_written" \notin DOMAIN m) =>
                  now = prior

\* C19 witness: an event carrying net_lines = -3 and lines_written = 4 was
\* saved over a document holding lines_changed = 2, which now holds 5.
C19_Witness ==
    LET f == up["p1"] IN
    /\ f.saved
    /\ "net_lines" \in DOMAIN f.metrics /\ "lines_written" \in DOMAIN f.metrics
    /\ f.metrics.net_lines = -3 /\ f.metrics.lines_written = 4
    /\ f.before.state = "ok" /\ f.before.doc.lines_changed = 2
    /\ indicators.doc.lines_changed = 5

\* C20: the document saved for an event holds files_modified raised by 1
\* when the tool name is Edit or Write and the event carries file_path, and
\* unchanged for every other event.
C20_FilesModified ==
    LET f == up["p1"]
        m == f.metrics
        prior == PriorDoc(f.before).files_modified
        now == indicators.doc.files_modified
    IN  f.saved =>
            IF m.tool_name \in {"Edit", "Write"} /\ "file_path" \in DOMAIN m
            THEN now = prior + 1
            ELSE now = prior

\* C20 witness: after an Edit had raised files_modified to 1, the event of a
\* Read, which carries a file path, was saved and files_modified is still 1.
C20_Witness ==
    LET f == up["p1"] IN
    /\ f.saved
    /\ f.metrics.tool_name = "Read" /\ "file_path" \in DOMAIN f.metrics
    /\ f.before.state = "ok" /\ f.before.doc.files_modified = 1
    /\ "Edit" \in DOMAIN f.before.doc.tools_used
    /\ indicators.doc.files_modified = 1

\* C21: when main's update has saved the document, commands_executed is one
\* more than before, whether one record or two went to the sink; for a
\* record with sub-agent type A (a Task, whose call sent two records) the
\* entry agents_invoked[A] is one more than before (1 when there was none)
\* and the other entries are as before; for a record without a sub-agent
\* type agents_invoked is as before.
C21_AgentCount ==
    LET f == mn["p1"]
        u == up["p1"]
        m == f.metricsData
        prior == PriorDoc(u.before)
        now == indicators.doc
    IN  (f.pc = "update" /\ u.pc = "done" /\ u.saved) =>
            /\ now.commands_executed = prior.commands_executed + 1
            /\ m.tool_name = "Task" =>
                  /\ f.sunk = <<"agent_invocation", "tool_execution">>
                  /\ "subagent_type" \in DOMAIN m
            /\ IF "subagent_type" \in DOMAIN m
               THEN LET A == m.subagent_type IN
                    /\ DOMAIN now.agents_invoked = DOMAIN prior.agents_invoked \cup {A}
                    /\ now.agents_invoked[A] =
                          IF A \in DOMAIN prior.agents_invoked
                          THEN prior.agents_invoked[A] + 1 ELSE 1
                    /\ \A k \in DOMAIN prior.agents_invoked \ {A} :
                          now.agents_invoked[k] = prior.agents_invoked[k]
               ELSE now.agents_invoked = prior.agents_invoked

\* C21 witness: a Task call for the sub-agent "fe" sent its two records and
\* saved the document: commands_executed went from 1 to 2 and
\* agents_invoked["fe"] from 1 to 2.
C21_Witness ==
    LET f == mn["p1"]
        u == up["p1"]
        A == Str(<<"f", "e">>)
    IN  /\ f.pc = "update" /\ u.pc = "done" /\ u.saved
        /\ f.metricsData.tool_name = "Task"
        /\ f.sunk = <<"agent_invocation", "tool_execution">>
        /\ u.before.state = "ok"
        /\ u.before.doc.commands_executed = 1
        /\ u.before.doc.agents_invoked[A] = 1
        /\ indicators.doc.commands_executed = 2
        /\ indicators.doc.agents_invoked[A] = 2

\* C22 as stated, read in its most favourable way (no I/O operation of the
\* update failed that the store allowed to succeed, and the file was not
\* unreadable beforehand): when main's update has returned, the document is
\* persisted and holds the event applied to the document it started from,
\* which is the defaults (zero counters, empty mappings, success_rate 100)
\* when there was no file.
C22_AsStated ==
    LET f == mn["p1"]
        u == up["p1"]
        base == IF u.before.state = "ok" THEN u.before.doc
                ELSE FreshIndicators(calls)
    IN  (f.pc = "update" /\ u.pc = "done" /\ ~u.fault /\ u.before.state # "corrupt") =>
            /\ u.saved
            /\ indicators = DocFile(UpdatedIndicators(base, u.metrics))

\* Lines one call of updateProductivityIndicators has appended to
\* realtime.log so far.
RealtimeAppended(p) == Len(realtimeLog) - up[p].rt0

\* C23 as stated, read in its most favourable way (no I/O operation of the
\* call failed that the store allowed to succeed): an update that has
\* returned has appended exactly one line to realtime.log when the sentinel
\* is present and none when it is absent.
C23_AsStated ==
    LET u == up["p1"] IN
    (u.pc = "done" /\ ~u.fault) =>
        RealtimeAppended("p1") = IF dashboardActive THEN 1 ELSE 0

\* C23 (amended): a call appends at most one line to realtime.log; it
\* appends one only with the sentinel present and after it saved the
\* document, and the line reports the saved counters; it appends exactly one
\* when it saved the document, the sentinel is present and no operation
\* failed; without the sentinel realtime.log is never written.
C23_DashboardSignal ==
    LET u == up["p1"]
        n == RealtimeAppended("p1")
    IN  /\ ~dashboardActive => realtimeLog = <<>>
        /\ u.pc # "idle" =>
              /\ n \in {0, 1}
              /\ n = 1 =>
                    /\ dashboardActive /\ u.saved /\ u.signalled
                    /\ realtimeLog[Len(realtimeLog)] =
                          [tool_name |-> u.metrics.tool_name,
                           commands |-> u.indicators.commands_executed,
                           files |-> u.indicators.files_modified]
              /\ (u.pc = "done" /\ u.saved /\ dashboardActive /\ ~u.fault) => n = 1

\* C23 witness: with the sentinel present, the second event of a session was
\* saved and its one line follows the first event's line in realtime.log.
C23_Witness ==
    LET u == up["p1"] IN
    /\ u.pc = "done" /\ u.saved /\ dashboardActive
    /\ u.rt0 = 1 /\ Len(realtimeLog) = 2
    /\ realtimeLog[2].commands = indicators.doc.commands_executed

\* C24: the report of main has success = TRUE exactly when no exception
\* reached main's catch block; once the primary record was submitted, whatever
\* the sink answered, no exception is raised, metricsLogged repeats the sink's
\* answer and the indicators update has run.
C24_ReportSuccess ==
    LET f == mn["p1"] IN
    /\ f.pc = "update" => up["p1"].pc # "idle" /\ up["p1"].metrics = f.metricsData
    /\ f.pc = "done" =>
          /\ f.report.success = ~f.threw
          /\ f.logResult # NoResult =>
                /\ ~f.threw
                /\ f.report.metrics.metricsLogged = f.logResult.success
                /\ f.updated \/ f.updateRaised

\* C24 witness: the sink answered success = FALSE for the primary record and
\* left no line in the event log, the report still says success with
\* metricsLogged = FALSE, and the saved counter exceeds the number of
\* tool_execution lines.
C24_Witness ==
    LET f == mn["p1"] IN
    /\ f.pc = "done" /\ ~f.threw
    /\ ~f.logResult.success /\ f.logResult.method = "local_fallback"
    /\ f.report.success /\ ~f.report.metrics.metricsLogged
    /\ f.updated
    /\ indicators.state = "ok"
    /\ indicators.doc.commands_executed >
          Cardinality({i \in 1..Len(jsonl) : jsonl[i].event_type = "tool_execution"})

\* C25: when the local fallback run by the catch block of logMetrics fails
\* at the creation of the realtime directory or at the activity-log append,
\* the call returns success = FALSE with method local_fallback although the
\* record's line is already the last line of tool-metrics.jsonl, and no
\* activity line was written; a fallback failing earlier leaves both files as
\* they were.
C25_FallbackNotAtomic ==
    LET f == lm["p1"] IN
    /\ f.pc \in {"lf_ensure_realtime", "lf_append_activity"} =>
          Len(jsonl) = f.jsonl0 + 1 /\ jsonl[Len(jsonl)] = f.data
    /\ (f.pc = "done" /\ f.mode = "catch" /\ f.lfFailedAt # "none") =>
          /\ ~f.result.success /\ f.result.method = "local_fallback"
          /\ Len(activity) = f.act0
          /\ IF f.lfFailedAt \in {"ensure_realtime", "append_activity"}
             THEN Len(jsonl) = f.jsonl0 + 1 /\ jsonl[Len(jsonl)] = f.data
             ELSE Len(jsonl) = f.jsonl0

\* C25 witness: the remote submission threw, the fallback appended the
\* record to tool-metrics.jsonl and then failed at the activity-log append,
\* and logMetrics returned success = FALSE.
C25_Witness ==
    LET f == lm["p1"] IN
    /\ f.pc = "done" /\ f.mode = "catch"
    /\ f.lfFailedAt = "append_activity"
    /\ ~f.result.success
    /\ Len(jsonl) = f.jsonl0 + 1 /\ jsonl[Len(jsonl)] = f.data
    /\ Len(activity) = f.act0

\* C26: every line of activity.log written for a record built by main has
\* status "unknown"; the line just written for an agent_invocation record has
\* tool name "unknown", and the line for a tool_execution record carries the
\* record's tool name.
C26_ActivityLine ==
    LET f == lm["p1"] IN
    /\ \A i \in 1..Len(activity) :
          activity[i].status = "unknown" /\ activity[i].kind = "tool_complete"
    /\ f.pc = "lf_done" =>
          /\ Len(activity) = f.act0 + 1
          /\ activity[Len(activity)].timestamp = f.data.timestamp
          /\ activity[Len(activity)].tool_name =
                IF f.data.event_type = "agent_invocation" THEN "unknown"
                ELSE f.data.tool_name
          /\ "status" \notin DOMAIN f.data
          /\ f.data.event_type = "agent_invocation" => "tool_name" \notin DOMAIN f.data

\* C26 witness: a Task invocation left two activity lines, the first for the
\* agent_invocation record with tool name "unknown", the second for the
\* primary record with tool name "Task", both with status "unknown".
C26_Witness ==
    /\ mn["p1"].pc = "done"
    /\ mn["p1"].sunk = <<"agent_invocation", "tool_execution">>
    /\ Len(activity) = 2
    /\ activity[1].tool_name = "unknown" /\ activity[1].status = "unknown"
    /\ activity[2].tool_name = "Task" /\ activity[2].status = "unknown"

\* C27: once the sink has answered for the agent_invocation record of a Task,
\* whatever the answer, the primary record is submitted next, the indicators
\* update runs, and the report's metricsLogged, apiMethod and apiMessage are
\* those of the primary record's outcome.
C27_AgentOutcomeIgnored ==
    LET f == mn["p1"] IN
    f.agentResult # NoResult =>
        /\ f.metricsData.tool_name = "Task"
        /\ f.sunk = <<"agent_invocation", "tool_execution">>
        /\ ~f.threw
        /\ f.pc \in {"primary_log", "update", "done"}
        /\ f.pc = "primary_log" => lm["p1"].data = f.metricsData
        /\ f.pc = "update" => up["p1"].pc # "idle" /\ up["p1"].metrics = f.metricsData
        /\ f.pc = "done" =>
              /\ f.updated \/ f.updateRaised
              /\ f.report.success
              /\ f.report.metrics.metricsLogged = f.logResult.success
              /\ f.report.metrics.apiMethod = f.logResult.method
              /\ f.report.metrics.apiMessage = f.logResult.message

\* C27 witness: the sink answered success = FALSE for the agent record and
\* acknowledged the primary record remotely; the indicators were saved and
\* the report says metricsLogged = TRUE with the remote method.
C27_Witness ==
    LET f == mn["p1"] IN
    /\ f.pc = "done"
    /\ f.agentResult # NoResult /\ ~f.agentResult.success
    /\ f.agentResult.method = "local_fallback"
    /\ f.logResult.success /\ f.logResult.method = "remote"
    /\ f.updated
    /\ f.report.metrics.metricsLogged /\ f.report.metrics.apiMethod = "remote"

\* C28: a call of updateProductivityIndicators whose readJSON of the existing
\* document was rejected writes nothing: the document file is exactly what it
\* was when the call began, realtime.log has no new line, and the call ends
\* in its catch block without having saved.
C28_UnreadableDocument ==
    LET u == up["p1"] IN
    u.readFailed =>
        /\ u.pc \in {"catch", "done"}
        /\ u.before.state # "absent"
        /\ ~u.loaded /\ ~u.saved /\ ~u.signalled
        /\ indicators = u.before
        /\ Len(realtimeLog) = u.rt0
        /\ u.pc = "done" => u.raised

\* C28 witness: with the sentinel present, the read of a well-formed document
\* holding counted events was rejected; the call returned and the document
\* still holds the same counters.
C28_Witness ==
    LET u == up["p1"] IN
    /\ u.pc = "done" /\ u.readFailed
    /\ dashboardActive
    /\ u.before.state = "ok" /\ u.before.doc.commands_executed >= 1
    /\ indicators = u.before

\* C29: after a call switchTenant(tenantId) has returned, the current tenant
\* or the stored currentTenantId differs from what it was before the call
\* only if tenantId was the id of a tenant of the provider's tenants list and
\* userRoles held a role for it; when either condition fails the call
\* rejects with the error it raised ("Tenant not found", "Access denied to
\* this tenant") and both are what they were; a call that did not reject
\* made that tenant current and stored its id.
C29_SwitchTenant ==
    LET l == tc.last
        b == l.before
        member == \E i \in DOMAIN b.tenants : b.tenants[i].id = l.arg
        access == l.arg \in b.userRoles
        changed == \/ tc.auth.currentTenant # b.currentTenant
                   \/ localStorage.currentTenantId # b.currentTenantId
    IN  l.arg # "" =>
            /\ changed => member /\ access
            /\ ~(member /\ access) =>
                  /\ l.threw = IF member THEN "Access denied to this tenant"
                               ELSE "Tenant not found"
                  /\ ~changed
            /\ l.threw = "" =>
                  /\ member /\ access
                  /\ Len(tc.auth.currentTenant) = 1
                  /\ tc.auth.currentTenant[1].id = l.arg
                  /\ localStorage.currentTenantId = l.arg

\* C29 witness: with two tenants loaded and a role for the second, a switch
\* from the first to the second returned: the second is current and stored.
C29_Witness ==
    LET l == tc.last IN
    /\ l.arg = "t2" /\ l.threw = ""
    /\ Len(l.before.tenants) = 2
    /\ l.before.currentTenant # <<>> /\ l.before.currentTenant[1].id = "t1"
    /\ l.before.currentTenantId = "t1"
    /\ tc.auth.currentTenant[1].id = "t2"
    /\ localStorage.currentTenantId = "t2"

\* C30: runAllTests runs the suites one after another in declared order: the
\* child process of a suite exists only when the promise of the suite before
\* it is resolved and its result pushed, at most one promise is pending, no
\* promise is ever rejected, a promise resolved by the 'error' handler has
\* passed = FALSE, and the results are those of the suites in declared
\* order, one per suite when the run has returned.
C30_Sequential ==
    LET N == Len(testSuites) IN
    tr.pc # "idle" =>
        /\ \A k \in 1..N :
              /\ tr.promise[k].state \in {"none", "pending", "resolved"}
              /\ tr.child[k] # "none" <=> k <= tr.i
              /\ tr.child[k] = "none" <=> tr.promise[k].state = "none"
              /\ (tr.promise[k].state = "resolved"
                      /\ tr.promise[k].value.errors = "message") =>
                    ~tr.promise[k].value.passed
        /\ \A k \in 2..N :
              tr.child[k] # "none" =>
                  /\ tr.promise[k - 1].state = "resolved"
                  /\ Len(tr.results) >= k - 1
        /\ Cardinality({k \in 1..N : tr.promise[k].state = "pending"}) <= 1
        /\ Len(tr.results) = IF tr.pc = "done" THEN N ELSE tr.i - 1
        /\ \A k \in 1..Len(tr.results) :
              /\ tr.results[k].suite = testSuites[k].name
              /\ tr.results[k].passed = tr.promise[k].value.passed
              /\ tr.results[k].errors = tr.promise[k].value.errors

\* C30 witness: the run has returned one result for each of the six suites;
\* the first suite's process could not be started (passed = FALSE, resolved
\* by the 'error' handler, never closed) and the second passed.
C30_Witness ==
    /\ tr.pc = "done"
    /\ Len(tr.results) = Len(testSuites)
    /\ tr.child[1] = "errored"
    /\ tr.results[1].errors = "message" /\ ~tr.results[1].passed
    /\ tr.results[2].passed
    /\ tr.results[Len(testSuites)].suite = "Full Test Suite"

====
